---- MODULE Spec2Model ----
(***************************************************************************)
(* State-machine model of the rpg-map-builder rendering engine             *)
(* (services/MapEngine.ts, services/utils.ts) and of the parts of App.tsx  *)
(* that drive it.                                                          *)
(*                                                                         *)
(* Geometry.  The model follows one pixel row of every canvas: the row    *)
(* through the dab centres.  Positions are integers in sub-pixel units,    *)
(* SubPx units to the pixel; pixel i spans [i*SubPx, (i+1)*SubPx) and is   *)
(* sampled at its centre.  A pixel holds its alpha in percent (0..100).    *)
(* Math.random() is a choice of k/RandSteps, k in 0..RandSteps-1.          *)
(***************************************************************************)
EXTENDS Integers, Sequences, FiniteSets, TLC

VARIABLES
    StochasticStamp,   \* utils.ts: lastSize, lastRoughness, lastBlurWidth, offCanvas
    genCount,          \* history: number of times generate() rebuilt offCanvas
    steps,             \* history: number of operations performed so far
    op,                \* history: the last operation and its arguments
    ctxBound,          \* MapEngine: mapCtx .. textCtx are bound (init was called)
    layerWidth,        \* the width attribute of each of the eight canvases, in pixels
    ctxState,          \* the drawing state of mapCtx, maskCtx, textureMaskCtx and assetCtx
    lastAssets,        \* history: the list given to the most recent drawAssets that drew
    maskCanvas,        \* LandMask pixels
    textureMaskCanvas, \* TextureMask pixels
    mapCanvas,         \* VisibleTerrainLayer pixels (mapCtx.canvas)
    textureCanvas,     \* VisibleTextureLayer pixels (textureLayerCtx.canvas)
    pathCanvas,        \* PathLayer pixels (pathCtx.canvas)
    pathAlpha,         \* pathCtx.globalAlpha, in percent
    currentTextureImg, \* the pattern image: [set |-> FALSE] stands for null
    riverState,        \* MapEngine.riverState
    pathRemainder,     \* MapEngine.pathRemainder, in sub-pixel units
    organicDabs,       \* history: number of organic river dabs so far
    assetCache,        \* MapEngine.assetCache: the sources whose image is cached
    pendingImages,     \* loadImage promises not yet settled, with what awaits them
    pendingLoads,      \* loadSnapshot: the layer images whose onload has not fired yet
    snap,              \* the value returned by the last getSnapshot call
    waterCanvas,       \* the shallow-water layer (waterCtx.canvas)
    assetCanvas,       \* the asset layer (assetCtx.canvas)
    textCanvas,        \* the label layer (textCtx.canvas)
    downloads,         \* the images exportImage has handed to the browser
    isHome,            \* App: the home screen is shown
    mapName,           \* App: the map name
    appState,          \* App: the AppState held by useState
    isDrawing,         \* App: isDrawing.current
    isPanning,         \* App: isPanning.current
    activePointers,    \* App: the ids in activePointers.current
    lastPos,           \* App: lastPos.current.x
    rafPending,        \* App: the pointer move waiting for its animation frame
    timers,            \* App: the setTimeout callbacks not yet run
    undoStack,         \* App: undoStack.current
    redoStack,         \* App: redoStack.current
    alerts,            \* history: number of alert() dialogs shown
    uncaught,          \* history: number of errors nothing caught
    strokeSegments,    \* history: drawPathSegment calls since the last pointer down
    lastLoad           \* history: the last file given to handleLoad, and the state before

stampVars == <<StochasticStamp, genCount>>
layerVars == <<maskCanvas, textureMaskCanvas, mapCanvas, textureCanvas, pathCanvas>>
asyncVars == <<assetCache, pendingImages, pendingLoads, snap>>
surfaceVars == <<waterCanvas, assetCanvas, textCanvas, downloads>>
engineVars == <<ctxBound, layerWidth, lastAssets, ctxState, layerVars, pathAlpha,
                currentTextureImg, riverState, pathRemainder,
               organicDabs, asyncVars, surfaceVars>>
appVars == <<isHome, mapName, appState, isDrawing, isPanning, activePointers, lastPos,
            rafPending, timers, undoStack, redoStack, alerts, uncaught, strokeSegments,
            lastLoad>>
vars == <<stampVars, steps, op, engineVars, appVars>>

----------------------------------------------------------------------------
(* Bounds *)

SubPx == 4          \* sub-pixel units per pixel
RandSteps == 2      \* resolution of Math.random()
MaxStampCalls == 4  \* generate() calls explored by SpecStamp
CanvasW == 4        \* width of every canvas, in pixels
MaxOrganicDabs == 2 \* organic river dabs in one behaviour

----------------------------------------------------------------------------
(* Helpers *)

Abs(n) == IF n < 0 THEN -n ELSE n
Max(a, b) == IF a >= b THEN a ELSE b
Min(a, b) == IF a <= b THEN a ELSE b

Null == -1          \* the null default of the optional number parameters

Randoms == 0 .. (RandSteps - 1)

\* n/d rounded to the nearest integer (d > 0, n >= 0)
Round(n, d) == (2 * n + d) \div (2 * d)

\* ceil(n/d) for d > 0
CeilDiv(n, d) == -((-n) \div d)

RECURSIVE Pow(_, _)
Pow(b, e) == IF e = 0 THEN 1 ELSE b * Pow(b, e - 1)

\* Brush radii and river width factors are carried as integers scaled by
\* FactorDen, which makes 0.15 * (target - current) exact for MaxOrganicDabs dabs.
FactorDen == RandSteps * Pow(20, MaxOrganicDabs + 1)

Pixels == 0 .. (CanvasW - 1)

----------------------------------------------------------------------------
(* StochasticStamp.generate  (utils.ts 72-134) *)

\* Common denominator of the stamp radii below: radii are kept as
\* (radius in sub-pixel units) * StampDen so that they stay integers.
StampDen == 400 * RandSteps

\* lastR = size + (Math.random() - 0.5) * roughness, with
\* roughness = (finalRoughness / 100) * size * 1.5 and Math.random() = k/RandSteps
\* (size arrives scaled by FactorDen; SizeUnits is the radius in sub-pixel units)
SizeUnits(size) == (size * SubPx) \div FactorDen

JitterRadius(size, finalRoughness, k) ==
    SizeUnits(size) * StampDen + (2 * k - RandSteps) * finalRoughness * SizeUnits(size) * 3

\* outer radius of the radial gradient: size + roughness/2 (size when roughness is 0)
GradientRadius(size, finalRoughness) ==
    SizeUnits(size) * StampDen + finalRoughness * SizeUnits(size) * 3 * RandSteps

\* blurOverride !== null ? blurOverride : blurWidthPercent
Resolve(override, global) == IF override # Null THEN override ELSE global

\* The stamp drawn by generate: on the modelled row the polygon reaches extR
\* to the right of the centre (point i = 0, angle 0) and extL to the left
\* (point i = 20, angle pi, which holds the radius drawn at i = 18).
\* gradR = 0 stands for the solid "white" fill.
DrawnStamp(size, finalRoughness, finalBlurWidth, k0, k18) ==
    [ extR  |-> IF finalRoughness > 0 THEN JitterRadius(size, finalRoughness, k0)
                ELSE SizeUnits(size) * StampDen,
      extL  |-> IF finalRoughness > 0 THEN JitterRadius(size, finalRoughness, k18)
                ELSE SizeUnits(size) * StampDen,
      gradR |-> IF finalBlurWidth < 95 THEN GradientRadius(size, finalRoughness)
                ELSE 0 ]

\* a mutant of CacheHit: the falloff width is left out of the comparison
CacheHit_NoBlur(st, size, finalRoughness, finalBlurWidth) ==
    /\ size = st.lastSize
    /\ finalRoughness = st.lastRoughness

\* if (size === this.lastSize && finalRoughness === this.lastRoughness && ...) return;
CacheHit(st, size, finalRoughness, finalBlurWidth) ==
    /\ size = st.lastSize
    /\ finalRoughness = st.lastRoughness
    /\ finalBlurWidth = st.lastBlurWidth

\* generate as a function of the cache st; k0, k18 are the random draws
generate(st, size, roughnessPercent, blurWidthPercent, roughOverride, blurOverride, k0, k18) ==
    LET finalBlurWidth == Resolve(blurOverride, blurWidthPercent)
        finalRoughness == Resolve(roughOverride, roughnessPercent)
    IN  IF CacheHit(st, size, finalRoughness, finalBlurWidth)
        THEN st
        ELSE [ lastSize      |-> size,
               lastRoughness |-> finalRoughness,
               lastBlurWidth |-> finalBlurWidth,
               offCanvas     |-> DrawnStamp(size, finalRoughness, finalBlurWidth, k0, k18) ]

\* 1 when generate rebuilt the stamp, 0 on a cache hit
Regenerated(st, st2, size, roughnessPercent, blurWidthPercent, roughOverride, blurOverride) ==
    IF CacheHit(st, size, Resolve(roughOverride, roughnessPercent),
                Resolve(blurOverride, blurWidthPercent))
    THEN 0 ELSE 1

\* lastSize: 0, lastRoughness: -1, lastBlurWidth: -1, offCanvas: null
InitStamp ==
    [ lastSize |-> 0, lastRoughness |-> -1, lastBlurWidth |-> -1,
      offCanvas |-> [extR |-> 0, extL |-> 0, gradR |-> 0] ]


----------------------------------------------------------------------------
(* StochasticStamp.drawStamp  (utils.ts 136-184) *)

\* twice the distance from x to the centre of pixel i, in sub-pixel units
Offset2(i, x) == 2 * i * SubPx + SubPx - 2 * x

\* Math.random() * Math.PI * 2, in degrees: on one row only 0 and 180 are followed
Rotations == {0, 180}

\* ctx.rotate(rotation): a half turn swaps the two sides of the stamp
Rotate(rotation, o2) == IF rotation = 180 THEN -o2 ELSE o2

\* alpha (percent) of the stamp canvas at signed offset o2/2 from its centre
StampAlpha(off, o2) ==
    LET inside == IF o2 >= 0 THEN o2 * StampDen <= 2 * off.extR
                  ELSE (-o2) * StampDen <= 2 * off.extL
    IN  IF ~inside THEN 0
        ELSE IF off.gradR = 0 THEN 100
        ELSE IF Abs(o2) * StampDen >= 2 * off.gradR THEN 0
        ELSE 100 - (100 * Abs(o2) * StampDen) \div (2 * off.gradR)

\* the result alpha of drawing source alpha s over destination alpha d
Composite(gco, d, s) ==
    CASE gco = "source-over"     -> Min(100, s + Round(d * (100 - s), 100))
      [] gco = "destination-out" -> Round(d * (100 - s), 100)
      [] gco = "destination-in"  -> Round(d * s, 100)
      [] gco = "source-atop"     -> d

\* drawStamp on a context whose canvas holds `pixels` and whose compositing
\* mode the caller has set to gco; yields the stamp cache and the canvas after it
drawStamp(pixels, gco, st, x, size, opacity, globalRoughness, globalBlurWidth, roughOverride, blurOverride, rotation, k0, k18) ==
    LET st2 == generate(st, size, globalRoughness, globalBlurWidth,
                        roughOverride, blurOverride, k0, k18)
    IN  [ stamp  |-> st2,
          regen  |-> Regenerated(st, st2, size, globalRoughness, globalBlurWidth,
                                 roughOverride, blurOverride),
          pixels |-> [i \in Pixels |->
                        Composite(gco, pixels[i],
                                  Round(StampAlpha(st2.offCanvas,
                                                   Rotate(rotation, Offset2(i, x))) * opacity,
                                        100))] ]

\* the random draws generate makes for this key: none on a cache hit
Draws(st, size, finalRoughness, finalBlurWidth) ==
    IF CacheHit(st, size, finalRoughness, finalBlurWidth) \/ finalRoughness <= 0
    THEN {<<0, 0>>}
    ELSE Randoms \X Randoms

----------------------------------------------------------------------------
(* MapEngine: construction, init, renderTextureLayer  (MapEngine.ts 15-106, 283-352) *)

Blank == [i \in Pixels |-> 0]

\* currentTextureImg = null
NoImage == [set |-> FALSE, tile |-> <<>>]

\* an image element: tile lists the alpha of its pixels
Image(tile) == [set |-> TRUE, tile |-> tile]

\* getSnapshot() === null
NoSnapshot == [taken |-> FALSE]

\* riverState = { currentWidthFactor: 1.0, targetWidthFactor: 1.0, distToNextChange: 0, ... }
\* width factors are scaled by FactorDen, distToNextChange is in sub-pixel units
\* scaled by RandSteps, traveledSinceChange and lastX are in sub-pixel units
InitRiver ==
    [ currentWidthFactor |-> FactorDen, targetWidthFactor |-> FactorDen,
      distToNextChange |-> 0, traveledSinceChange |-> 0, lastX |-> 0 ]

\* the state after `new MapEngine()`
\* the eight canvases: the two masks the engine creates and the six it is handed
Layers == {"mask", "textureMask", "map", "water", "texture", "path", "asset", "text"}

\* the width of a canvas element nobody has sized
DefaultWidth == 300

\* every canvas has width w
AllWidths(w) == [l \in Layers |-> w]

\* the contexts whose drawing state the engine changes
Contexts == {"map", "mask", "textureMask", "asset"}

\* a context's drawing state: compositing mode, globalAlpha in percent, the
\* translation of its transform in sub-pixel units (the model rotates and
\* scales nothing it leaves behind), and the states pushed by save()
CtxState(gco, alpha, origin, saved) ==
    [gco |-> gco, alpha |-> alpha, origin |-> origin, saved |-> saved]

\* the state of a context whose canvas has just been created or sized
DefaultCtx == CtxState("source-over", 100, 0, <<>>)

\* ctx.save()
save(c) == [c EXCEPT !.saved = Append(@, CtxState(c.gco, c.alpha, c.origin, <<>>))]

\* ctx.restore(): nothing happens on an empty stack
restore(c) ==
    IF c.saved = <<>> THEN c
    ELSE LET top == c.saved[Len(c.saved)]
         IN  CtxState(top.gco, top.alpha, top.origin, SubSeq(c.saved, 1, Len(c.saved) - 1))

\* a mutant of StampCtx: drawStamp does not restore the context
StampCtx_NoRestore(c, x, opacity) ==
    [save(c) EXCEPT !.origin = @ + x, !.alpha = opacity]

\* the context drawStamp drew on, after the call: save, translate, rotate,
\* globalAlpha = opacity, drawImage, restore  (utils.ts 170-183)
StampCtx(c, x, opacity) ==
    restore([save(c) EXCEPT !.origin = @ + x, !.alpha = opacity])

\* save(); globalCompositeOperation = gco; drawStamp(...); restore()
\* (MapEngine.ts 147-150, 158-166, 172-175, 242-245)
ModeStampCtx(c, gco, x, opacity) ==
    restore(StampCtx([save(c) EXCEPT !.gco = gco], x, opacity))

InitEngine ==
    /\ ctxBound = FALSE
    /\ layerWidth = AllWidths(DefaultWidth)
    /\ ctxState = [c \in Contexts |-> DefaultCtx]
    /\ lastAssets = <<>>
    /\ maskCanvas = Blank
    /\ textureMaskCanvas = Blank
    /\ mapCanvas = Blank
    /\ textureCanvas = Blank
    /\ pathCanvas = Blank
    /\ pathAlpha = 100
    /\ currentTextureImg = NoImage
    /\ riverState = InitRiver
    /\ pathRemainder = 0
    /\ organicDabs = 0
    /\ assetCache = {}
    /\ pendingImages = {}
    /\ pendingLoads = {}
    /\ snap = NoSnapshot
    /\ waterCanvas = Blank
    /\ assetCanvas = Blank
    /\ textCanvas = Blank
    /\ downloads = <<>>

\* init(w, h, ...): binds the contexts; setting width and height empties every
\* canvas and resets every context to its defaults
EngineInitTo(w) ==
    /\ ctxBound' = TRUE
    /\ layerWidth' = AllWidths(w)
    /\ ctxState' = [c \in Contexts |-> DefaultCtx]
    /\ UNCHANGED lastAssets
    /\ maskCanvas' = Blank
    /\ textureMaskCanvas' = Blank
    /\ mapCanvas' = Blank
    /\ textureCanvas' = Blank
    /\ pathCanvas' = Blank
    /\ waterCanvas' = Blank
    /\ assetCanvas' = Blank
    /\ textCanvas' = Blank
    /\ pathAlpha' = 100
    /\ op' = [name |-> "init", w |-> w]
    /\ steps' = steps + 1
    /\ UNCHANGED <<stampVars, currentTextureImg, riverState, pathRemainder, organicDabs,
                   asyncVars, downloads>>

\* init with the width of the map the model draws on
EngineInit == EngineInitTo(CanvasW)

\* resize(w, h): sets the width and height of the two mask canvases, which
\* empties them; the six visible canvases are not touched
Resize(w) ==
    /\ layerWidth' = [layerWidth EXCEPT !["mask"] = w, !["textureMask"] = w]
    /\ ctxState' = [ctxState EXCEPT !["mask"] = DefaultCtx, !["textureMask"] = DefaultCtx]
    /\ UNCHANGED lastAssets
    /\ maskCanvas' = Blank
    /\ textureMaskCanvas' = Blank
    /\ op' = [name |-> "resize", w |-> w]
    /\ steps' = steps + 1
    /\ UNCHANGED <<stampVars, ctxBound, mapCanvas, textureCanvas, pathCanvas, pathAlpha,
                   currentTextureImg, riverState, pathRemainder, organicDabs, asyncVars,
                   surfaceVars>>

\* the dirty-region arguments of renderTextureLayer: x in sub-pixel units,
\* r in pixels scaled by FactorDen
NoDirty == [given |-> FALSE, x |-> 0, r |-> 0]
Dirty(x, r) == [given |-> TRUE, x |-> x, r |-> r]

\* left = Math.floor(dirtyX - r)
DirtyLeft(d) == (d.x * FactorDen - d.r * SubPx) \div (SubPx * FactorDen)
\* size = Math.ceil(r * 2)
DirtySize(d) == CeilDiv(2 * d.r, FactorDen)

\* the repeating pattern, anchored at the canvas origin
PatternAt(img, i) == img.tile[(i % Len(img.tile)) + 1]

\* a mutant of renderTextureLayer: the dirty square is not clipped to the canvas
\* on the right, so the slice drawn ends where the square ends
renderTextureLayer_Unclipped(tex, bound, img, texMask, mask, d) ==
    IF ~bound THEN tex
    ELSE IF ~img.set
    THEN IF d.given
         THEN [i \in Pixels |-> IF DirtyLeft(d) <= i /\ i < DirtyLeft(d) + DirtySize(d)
                                THEN 0 ELSE tex[i]]
         ELSE Blank
    ELSE LET startX == IF d.given THEN Max(0, DirtyLeft(d)) ELSE 0
             endX   == IF d.given THEN Min(CanvasW - 1, DirtyLeft(d) + DirtySize(d)) ELSE CanvasW
         IN  IF d.given /\ endX <= startX THEN tex
             ELSE [i \in Pixels |->
                     IF startX <= i /\ i < endX
                     THEN Round(Round(PatternAt(img, i) * texMask[i], 100) * mask[i], 100)
                     ELSE 0]

\* renderTextureLayer(dirtyX?, dirtyY?, dirtyR?): the texture canvas after the call.
\* With no pattern image the dirty square (or everything) is cleared.  With one,
\* the slice [startX, endX) is cleared and filled with the pattern, then the two
\* mask slices are drawn in destination-in: no clip is set, so the compositing
\* runs over the whole canvas, where the drawn slice is transparent outside
\* [startX, endX) and destination-in leaves alpha 0 there.
renderTextureLayer(tex, bound, img, texMask, mask, d) ==
    IF ~bound THEN tex
    ELSE IF ~img.set
    THEN IF d.given
         THEN [i \in Pixels |-> IF DirtyLeft(d) <= i /\ i < DirtyLeft(d) + DirtySize(d)
                                THEN 0 ELSE tex[i]]
         ELSE Blank
    ELSE LET startX == IF d.given THEN Max(0, DirtyLeft(d)) ELSE 0
             endX   == IF d.given THEN Min(CanvasW, DirtyLeft(d) + DirtySize(d)) ELSE CanvasW
         IN  IF d.given /\ endX <= startX THEN tex
             ELSE [i \in Pixels |->
                     IF startX <= i /\ i < endX
                     THEN Round(Round(PatternAt(img, i) * texMask[i], 100) * mask[i], 100)
                     ELSE 0]


\* a call of renderTextureLayer from outside, with or without a dirty region
RenderTextureLayer(d) ==
    /\ textureCanvas' = renderTextureLayer(textureCanvas, ctxBound, currentTextureImg,
                                           textureMaskCanvas, maskCanvas, d)
    /\ op' = [name |-> "renderTextureLayer", dirty |-> d, before |-> textureCanvas]
    /\ steps' = steps + 1
    /\ UNCHANGED <<stampVars, ctxBound, layerWidth, lastAssets, ctxState, maskCanvas,
                   textureMaskCanvas, mapCanvas, pathCanvas,
                   pathAlpha, currentTextureImg, riverState, pathRemainder, organicDabs,
                   asyncVars,
                   surfaceVars>>

----------------------------------------------------------------------------
(* MapEngine.applyPaint  (MapEngine.ts 110-182, 237-246) *)

\* 0.6 + Math.random() * 0.5, scaled by FactorDen
NewTarget(k) == ((12 * RandSteps + 10 * k) * FactorDen) \div (20 * RandSteps)

\* 20 + Math.random() * 40 pixels, in sub-pixel units scaled by RandSteps
NewDistance(k) == (20 * RandSteps + 40 * k) * SubPx

\* a mutant of Smooth: the blend rate is 1.15, so the factor overshoots its target
Smooth_Overshoot(current, target) == current + ((target - current) * 23) \div 20

\* currentWidthFactor += (targetWidthFactor - currentWidthFactor) * 0.15
Smooth(current, target) == current + ((target - current) * 3) \div 20

\* a mutant of RiverStep: a new target leaves the traveled distance as it is
RiverStep_NoReset(rs, x, kt, kd) ==
    LET dist     == Abs(x - rs.lastX)
        traveled == rs.traveledSinceChange + dist
        change   == traveled * RandSteps >= rs.distToNextChange
        target   == IF change THEN NewTarget(kt) ELSE rs.targetWidthFactor
    IN  [ currentWidthFactor  |-> Smooth(rs.currentWidthFactor, target),
          targetWidthFactor   |-> target,
          distToNextChange    |-> IF change THEN NewDistance(kd) ELSE rs.distToNextChange,
          traveledSinceChange |-> traveled,
          lastX               |-> rs.lastX ]

\* the river branch's update of riverState (lines 131-142); kt and kd are the
\* random draws for the new target and the new distance
RiverStep(rs, x, kt, kd) ==
    LET dist     == Abs(x - rs.lastX)
        traveled == rs.traveledSinceChange + dist
        change   == traveled * RandSteps >= rs.distToNextChange
        target   == IF change THEN NewTarget(kt) ELSE rs.targetWidthFactor
    IN  [ currentWidthFactor  |-> Smooth(rs.currentWidthFactor, target),
          targetWidthFactor   |-> target,
          distToNextChange    |-> IF change THEN NewDistance(kd) ELSE rs.distToNextChange,
          traveledSinceChange |-> IF change THEN 0 ELSE traveled,
          lastX               |-> rs.lastX ]

\* the draws the river branch makes: none unless a new target is picked
RiverDraws(rs, x) ==
    IF (rs.traveledSinceChange + Abs(x - rs.lastX)) * RandSteps >= rs.distToNextChange
    THEN Randoms \X Randoms ELSE {<<0, 0>>}

\* terrain branch (lines 118-127): drawToMask, drawStamp on mapCtx, renderTextureLayer
PaintTerrain(x, state) ==
    LET radius == state.brushSize * FactorDen IN
    \E rot \in Rotations :
    \E d1 \in Draws(StochasticStamp, radius, state.roughness, 95) :
    \E m \in {drawStamp(maskCanvas, ctxState["mask"].gco, StochasticStamp, x, radius, 100,
                         state.roughness, state.blurWidth, Null, 95, rot, d1[1], d1[2])} :
          \E d2 \in Draws(m.stamp, radius, state.roughness, 95) :
          \E v \in {drawStamp(mapCanvas, ctxState["map"].gco, m.stamp, x, radius, state.brushBlur,
                               state.roughness, state.blurWidth, Null, 95, rot, d2[1], d2[2])} :
                /\ maskCanvas' = m.pixels
                /\ mapCanvas' = v.pixels
                /\ ctxState' = [ctxState EXCEPT
                                   !["mask"] = StampCtx(@, x, 100),
                                   !["map"]  = StampCtx(@, x, state.brushBlur)]
                /\ StochasticStamp' = v.stamp
                /\ genCount' = genCount + m.regen + v.regen
                /\ textureCanvas' = renderTextureLayer(textureCanvas, ctxBound, currentTextureImg,
                                        textureMaskCanvas, m.pixels, Dirty(x, 3 * radius))
                /\ riverState' = [riverState EXCEPT !.lastX = x]
                /\ op' = [name |-> "applyPaint", mode |-> "terrain", x |-> x, state |-> state,
                          rotMask |-> rot, rotMap |-> rot, regenMask |-> m.regen,
                          regenMap |-> v.regen]
                /\ UNCHANGED <<textureMaskCanvas, organicDabs>>

\* river branch (lines 129-153): riverState, eraseFromMask, erase on mapCtx, renderTextureLayer
PaintRiver(x, state) ==
    /\ state.isOrganicRiver => organicDabs < MaxOrganicDabs
    /\ \E rd \in (IF state.isOrganicRiver THEN RiverDraws(riverState, x) ELSE {<<0, 0>>}) :
       \E rs \in {IF state.isOrganicRiver THEN RiverStep(riverState, x, rd[1], rd[2])
                   ELSE riverState} :
       \E fr \in {IF state.isOrganicRiver THEN state.brushSize * rs.currentWidthFactor
                   ELSE state.brushSize * FactorDen} :
       \E rot \in Rotations :
       \E d1 \in Draws(StochasticStamp, fr, state.roughness, 100) :
       \E m \in {drawStamp(maskCanvas, "destination-out", StochasticStamp, x, fr, 100,
                            state.roughness, state.blurWidth, Null, 100, rot, d1[1], d1[2])} :
             \E d2 \in Draws(m.stamp, fr, state.roughness, 100) :
             \E v \in {drawStamp(mapCanvas, "destination-out", m.stamp, x, fr, 100,
                                  state.roughness, state.blurWidth, Null, 100, rot, d2[1], d2[2])} :
                   /\ maskCanvas' = m.pixels
                   /\ mapCanvas' = v.pixels
                   /\ ctxState' = [ctxState EXCEPT
                                      !["mask"] = ModeStampCtx(@, "destination-out", x, 100),
                                      !["map"]  = ModeStampCtx(@, "destination-out", x, 100)]
                   /\ StochasticStamp' = v.stamp
                   /\ genCount' = genCount + m.regen + v.regen
                   /\ textureCanvas' = renderTextureLayer(textureCanvas, ctxBound,
                                           currentTextureImg, textureMaskCanvas, m.pixels,
                                           Dirty(x, 3 * fr))
                   /\ riverState' = [rs EXCEPT !.lastX = x]
                   /\ organicDabs' = organicDabs + (IF state.isOrganicRiver THEN 1 ELSE 0)
                   /\ op' = [name |-> "applyPaint", mode |-> "river", x |-> x, state |-> state,
                             rotMask |-> rot, rotMap |-> rot, regenMask |-> m.regen,
                             regenMap |-> v.regen, radius |-> fr]
                   /\ UNCHANGED textureMaskCanvas

\* texture branch (lines 155-177)
PaintTexture(x, state) ==
    LET radius == state.brushSize * FactorDen IN
    \E rot \in Rotations :
      IF state.activeTexture
      THEN \E t \in {drawStamp(textureMaskCanvas,
                              IF state.isTextureEraser THEN "destination-out" ELSE "source-over",
                              StochasticStamp, x, radius, state.brushBlur, state.roughness,
                              state.blurWidth, 0, state.blurWidth, rot, 0, 0)} :
               /\ textureMaskCanvas' = t.pixels
               /\ ctxState' = [ctxState EXCEPT
                                  !["textureMask"] =
                                      ModeStampCtx(@, IF state.isTextureEraser
                                                      THEN "destination-out" ELSE "source-over",
                                                   x, state.brushBlur)]
               /\ StochasticStamp' = t.stamp
               /\ genCount' = genCount + t.regen
               /\ textureCanvas' = renderTextureLayer(textureCanvas, ctxBound, currentTextureImg,
                                       t.pixels, maskCanvas, Dirty(x, 3 * radius))
               /\ riverState' = [riverState EXCEPT !.lastX = x]
               /\ op' = [name |-> "applyPaint", mode |-> "texture", x |-> x, state |-> state,
                         rot |-> rot, stamp |-> t.stamp.offCanvas, before |-> textureCanvas]
               /\ UNCHANGED <<maskCanvas, mapCanvas, organicDabs>>
      ELSE \E v \in {drawStamp(mapCanvas, "source-atop", StochasticStamp, x, radius,
                              state.brushBlur, state.roughness, state.blurWidth, 0,
                              state.blurWidth, rot, 0, 0)} :
               /\ mapCanvas' = v.pixels
               /\ ctxState' = [ctxState EXCEPT
                                  !["map"] = ModeStampCtx(@, "source-atop", x, state.brushBlur)]
               /\ StochasticStamp' = v.stamp
               /\ genCount' = genCount + v.regen
               /\ riverState' = [riverState EXCEPT !.lastX = x]
               /\ op' = [name |-> "applyPaint", mode |-> "legacy", x |-> x, state |-> state]
               /\ UNCHANGED <<maskCanvas, textureMaskCanvas, textureCanvas, organicDabs>>

\* a mutant of PaintCall: the texture brush sculpts, as the terrain brush does
PaintCall_TextureSculpts(x, state) ==
    /\ UNCHANGED <<ctxBound, layerWidth, lastAssets, pathCanvas, pathAlpha, currentTextureImg,
                   asyncVars, surfaceVars>>
    /\ IF ~ctxBound
       THEN /\ op' = [name |-> "applyPaint", mode |-> "unbound", x |-> x, state |-> state]
            /\ UNCHANGED <<stampVars, ctxState, maskCanvas, textureMaskCanvas, mapCanvas,
                           textureCanvas, riverState, organicDabs>>
       ELSE CASE state.paintMode = "terrain" -> PaintTerrain(x, state)
              [] state.paintMode = "river"   -> PaintRiver(x, state)
              [] state.paintMode = "texture" -> PaintTerrain(x, state)
              [] OTHER ->
                   /\ riverState' = [riverState EXCEPT !.lastX = x]
                   /\ op' = [name |-> "applyPaint", mode |-> "none", x |-> x, state |-> state]
                   /\ UNCHANGED <<stampVars, ctxState, maskCanvas, textureMaskCanvas, mapCanvas,
                                  textureCanvas, organicDabs>>

\* applyPaint(x, y, state): what the call does to the engine
PaintCall(x, state) ==
    /\ UNCHANGED <<ctxBound, layerWidth, lastAssets, pathCanvas, pathAlpha, currentTextureImg,
                   asyncVars, surfaceVars>>
    /\ IF ~ctxBound
       THEN /\ op' = [name |-> "applyPaint", mode |-> "unbound", x |-> x, state |-> state]
            /\ UNCHANGED <<stampVars, ctxState, maskCanvas, textureMaskCanvas, mapCanvas,
                           textureCanvas, riverState, organicDabs>>
       ELSE CASE state.paintMode = "terrain" -> PaintTerrain(x, state)
              [] state.paintMode = "river"   -> PaintRiver(x, state)
              [] state.paintMode = "texture" -> PaintTexture(x, state)
              [] OTHER ->
                   /\ riverState' = [riverState EXCEPT !.lastX = x]
                   /\ op' = [name |-> "applyPaint", mode |-> "none", x |-> x, state |-> state]
                   /\ UNCHANGED <<stampVars, ctxState, maskCanvas, textureMaskCanvas, mapCanvas,
                                  textureCanvas, organicDabs>>

\* applyPaint(x, y, state) called on its own
ApplyPaint(x, state) ==
    /\ steps' = steps + 1
    /\ UNCHANGED pathRemainder
    /\ PaintCall(x, state)

----------------------------------------------------------------------------
(* MapEngine.drawPathSegment  (MapEngine.ts 184-235) *)

\* state.pathSpacing is carried in tenths (the drawer stores v / 10), so path
\* distances (pathRemainder, currentDist, spacing) are in sub-pixel units
\* scaled by PathDen
PathDen == 10

\* the fields of AppState that drawPathSegment reads
PathState(size, spacing10, style, opacity) ==
    [ brushSize |-> size, pathSpacing |-> spacing10, pathStyle |-> style, brushBlur |-> opacity ]

\* spacing = Math.max(1, state.brushSize * state.pathSpacing)
Spacing(state) == Max(SubPx * PathDen, state.brushSize * state.pathSpacing * SubPx)

\* a mutant of MarkCount: `while (currentDist < dist)`
MarkCount_Strict(remainder, dist, spacing) ==
    IF remainder >= dist THEN 0 ELSE (dist - remainder - 1) \div spacing + 1

\* the number of iterations of `while (currentDist <= dist) { ...; currentDist += spacing }`
MarkCount(remainder, dist, spacing) ==
    IF remainder > dist THEN 0 ELSE (dist - remainder) \div spacing + 1

\* the centres (tx) of the marks, scaled by PathDen: x1 + nx * currentDist
MarkCentres(remainder, x1, x2, spacing) ==
    LET dist == Abs(x2 - x1) * PathDen
        nx   == IF x2 >= x1 THEN 1 ELSE -1
    IN  { x1 * PathDen + nx * (remainder + n * spacing) :
            n \in 0 .. (MarkCount(remainder, dist, spacing) - 1) }

\* pixel i lies under the mark centred at tx: the dot has radius brushSize / 2,
\* the dash reaches brushSize / 2 to either side along the segment
UnderMark(i, tx, state) ==
    Abs((2 * i * SubPx + SubPx) * PathDen - 2 * tx) <= state.brushSize * SubPx * PathDen

\* n fills of alpha a over destination alpha d
RECURSIVE Fill(_, _, _)
Fill(d, a, n) == IF n = 0 THEN d ELSE Fill(Composite("source-over", d, a), a, n - 1)

\* a mutant of drawPathSegment: the remainder is not carried, every segment starts at 0
drawPathSegment_NoCarry(bound, pixels, alpha, remainder, x1, x2, state) ==
    LET dist    == Abs(x2 - x1) * PathDen
        spacing == Spacing(state)
        centres == MarkCentres(0, x1, x2, spacing)
    IN  IF ~bound \/ 2 * Abs(x2 - x1) < SubPx
        THEN [ pixels |-> pixels, alpha |-> alpha, remainder |-> remainder, marks |-> {} ]
        ELSE [ pixels    |-> [i \in Pixels |->
                                Fill(pixels[i], state.brushBlur,
                                     Cardinality({tx \in centres : UnderMark(i, tx, state)}))],
               alpha     |-> state.brushBlur,
               remainder |-> MarkCount(0, dist, spacing) * spacing - dist,
               marks     |-> centres ]

\* drawPathSegment(x1, y1, x2, y2, state) on the path canvas `pixels` whose context
\* has globalAlpha `alpha`: the canvas, globalAlpha and pathRemainder after the
\* call, and the centres of the marks it placed
drawPathSegment(bound, pixels, alpha, remainder, x1, x2, state) ==
    LET dist    == Abs(x2 - x1) * PathDen
        spacing == Spacing(state)
        centres == MarkCentres(remainder, x1, x2, spacing)
    IN  IF ~bound \/ 2 * Abs(x2 - x1) < SubPx
        THEN [ pixels |-> pixels, alpha |-> alpha, remainder |-> remainder, marks |-> {} ]
        ELSE [ pixels    |-> [i \in Pixels |->
                                Fill(pixels[i], state.brushBlur,
                                     Cardinality({tx \in centres : UnderMark(i, tx, state)}))],
               alpha     |-> state.brushBlur,
               remainder |-> remainder + MarkCount(remainder, dist, spacing) * spacing - dist,
               marks     |-> centres ]

PathCall(x1, x2, state) ==
    LET r == drawPathSegment(ctxBound, pathCanvas, pathAlpha, pathRemainder, x1, x2, state) IN
    /\ pathCanvas' = r.pixels
    /\ pathAlpha' = r.alpha
    /\ pathRemainder' = r.remainder
    /\ op' = [name |-> "drawPathSegment", x1 |-> x1, x2 |-> x2, state |-> state,
              marks |-> r.marks, remainder |-> pathRemainder]
    /\ UNCHANGED <<stampVars, ctxBound, layerWidth, lastAssets, ctxState, maskCanvas,
                   textureMaskCanvas, mapCanvas, textureCanvas,
                   currentTextureImg, riverState, organicDabs, asyncVars,
                   surfaceVars>>

\* drawPathSegment(x1, y1, x2, y2, state) called on its own
DrawPathSegment(x1, x2, state) ==
    /\ steps' = steps + 1
    /\ PathCall(x1, x2, state)

\* engineRef.current.pathRemainder = 0 (App.tsx 431, 530)
ResetPathRemainder ==
    /\ pathRemainder' = 0
    /\ op' = [name |-> "resetPathRemainder"]
    /\ steps' = steps + 1
    /\ UNCHANGED <<stampVars, ctxBound, layerWidth, lastAssets, ctxState, layerVars, pathAlpha,
                   currentTextureImg, riverState,
                   organicDabs, asyncVars,
                   surfaceVars>>


----------------------------------------------------------------------------
(* loadImage, loadAssetImage, setGlobalTexture  (MapEngine.ts 5-13, 91-106) *)

\* the image sources used: what each decodes to
Sources == {"grass", "dots"}

\* a source whose image fires error: loadImage resolves with the element all
\* the same, in the broken state and without pixels
FailingSource == "missing"
Broken == Image(<<>>)
Decoded(src) ==
    IF src = "grass" THEN Image(<<100>>)
    ELSE IF src = "dots" THEN Image(<<100, 0>>)
    ELSE Broken

\* renderTextureLayer() with no dirty region, on the current masks
FullRender(img, texMask, mask) ==
    renderTextureLayer(textureCanvas, ctxBound, img, texMask, mask, NoDirty)

\* setGlobalTexture(null)
ClearGlobalTexture ==
    /\ currentTextureImg' = NoImage
    /\ textureCanvas' = FullRender(NoImage, textureMaskCanvas, maskCanvas)
    /\ op' = [name |-> "setGlobalTexture", src |-> "null"]
    /\ steps' = steps + 1
    /\ UNCHANGED <<stampVars, ctxBound, layerWidth, lastAssets, ctxState, maskCanvas,
                   textureMaskCanvas, mapCanvas, pathCanvas,
                   pathAlpha, riverState, pathRemainder, organicDabs, asyncVars,
                   surfaceVars>>

\* setGlobalTexture(src): a cached image is taken at once, otherwise the call
\* waits for loadImage
SetGlobalTexture(src) ==
    /\ op' = [name |-> "setGlobalTexture", src |-> src]
    /\ steps' = steps + 1
    /\ IF src \in assetCache
       THEN /\ currentTextureImg' = Decoded(src)
            /\ textureCanvas' = FullRender(Decoded(src), textureMaskCanvas, maskCanvas)
            /\ UNCHANGED pendingImages
       ELSE /\ pendingImages' = pendingImages \cup {[id |-> steps, src |-> src, for |-> "texture"]}
            /\ UNCHANGED <<currentTextureImg, textureCanvas>>
    /\ UNCHANGED <<stampVars, ctxBound, layerWidth, lastAssets, ctxState, maskCanvas,
                   textureMaskCanvas, mapCanvas, pathCanvas,
                   pathAlpha, riverState, pathRemainder, organicDabs, assetCache, pendingLoads,
                   snap,
                   surfaceVars>>

\* img.onload of a pending loadImage: loadAssetImage caches the image and
\* setGlobalTexture goes on with it
ImageLoaded(p) ==
    /\ p \in pendingImages
    /\ p.for = "texture"
    /\ pendingImages' = pendingImages \ {p}
    /\ assetCache' = assetCache \cup {p.src}
    /\ currentTextureImg' = Decoded(p.src)
    /\ textureCanvas' = FullRender(Decoded(p.src), textureMaskCanvas, maskCanvas)
    /\ op' = [name |-> "imageLoaded", src |-> p.src, for |-> p.for, id |-> p.id]
    /\ UNCHANGED <<stampVars, steps, ctxBound, layerWidth, lastAssets, ctxState, maskCanvas,
                   textureMaskCanvas, mapCanvas,
                   pathCanvas, pathAlpha, riverState, pathRemainder, organicDabs, pendingLoads,
                   snap,
                   surfaceVars>>

----------------------------------------------------------------------------
(* MapEngine.getSnapshot, loadSnapshot  (MapEngine.ts 461-499) *)

\* canvas.toDataURL(): the pixels as a data URL (a lossless encoding of the row)
ToDataURL(pixels) == [ok |-> TRUE, px |-> [k \in 1 .. CanvasW |-> pixels[k - 1]]]

\* a data URL whose image does not decode
BadDataURL == [ok |-> FALSE, px |-> <<>>]

\* pixel i of the image decoded from a data URL
ImagePixel(url, i) == IF i + 1 <= Len(url.px) THEN url.px[i + 1] ELSE 0

\* getSnapshot(): null before init
getSnapshot ==
    IF ~ctxBound THEN NoSnapshot
    ELSE [ taken |-> TRUE, map |-> ToDataURL(mapCanvas), mask |-> ToDataURL(maskCanvas),
           hasTextureMask |-> TRUE, textureMask |-> ToDataURL(textureMaskCanvas),
           path |-> ToDataURL(pathCanvas) ]

\* a caller keeps what getSnapshot() returned
GetSnapshot ==
    /\ snap' = getSnapshot
    /\ op' = [name |-> "getSnapshot",
              layers |-> <<maskCanvas, textureMaskCanvas, mapCanvas, pathCanvas>>]
    /\ steps' = steps + 1
    /\ UNCHANGED <<stampVars, ctxBound, layerWidth, lastAssets, ctxState, layerVars, pathAlpha,
                   currentTextureImg, riverState,
                   pathRemainder, organicDabs, assetCache, pendingImages, pendingLoads,
                   surfaceVars>>

\* ctx.clearRect(0, 0, w, h)
ClearRect(pixels, w) == [i \in Pixels |-> IF i < w THEN 0 ELSE pixels[i]]

\* the loadLayer calls of loadSnapshot(s, w, h): their images load later
LoadLayers(s, w, bound, id) ==
    (IF bound THEN {[id |-> id, layer |-> "map", src |-> s.map, w |-> w],
                    [id |-> id, layer |-> "path", src |-> s.path, w |-> w]}
     ELSE {})
    \cup {[id |-> id, layer |-> "mask", src |-> s.mask, w |-> w]}
    \cup (IF s.hasTextureMask
          THEN {[id |-> id, layer |-> "textureMask", src |-> s.textureMask, w |-> w]}
          ELSE {})

\* loadSnapshot(s, w, h)
LoadSnapshot(s, w) ==
    /\ pendingLoads' = pendingLoads \cup LoadLayers(s, w, ctxBound, steps)
    /\ textureMaskCanvas' = IF s.hasTextureMask THEN textureMaskCanvas
                            ELSE ClearRect(textureMaskCanvas, w)
    /\ op' = [name |-> "loadSnapshot", snapshot |-> s,
              fresh |-> (op.name = "getSnapshot" /\ s = snap /\ pendingLoads = {}),
              layers |-> IF op.name = "getSnapshot" THEN op.layers ELSE <<>>]
    /\ steps' = steps + 1
    /\ UNCHANGED <<stampVars, ctxBound, layerWidth, lastAssets, ctxState, maskCanvas,
                   mapCanvas, textureCanvas, pathCanvas,
                   pathAlpha, currentTextureImg, riverState, pathRemainder, organicDabs,
                   assetCache, pendingImages, snap,
                   surfaceVars>>

\* ctx.clearRect(0, 0, w, h); ctx.drawImage(img, 0, 0) on a context with the
\* given globalAlpha (percent), in source-over
Restore(pixels, url, w, alpha) ==
    [i \in Pixels |->
       Composite("source-over", ClearRect(pixels, w)[i], Round(ImagePixel(url, i) * alpha, 100))]

\* the history kept in op while the images of one loadSnapshot load
AfterLoad(p) ==
    IF op.name = "decode" THEN [op EXCEPT !.layer = p.layer]
    ELSE IF op.name = "loadSnapshot"
    THEN [name |-> "decode", layer |-> p.layer, fresh |-> op.fresh, layers |-> op.layers,
          snapshot |-> op.snapshot]
    ELSE IF op.name \in {"undo", "redo"} /\ op.applied
    THEN [name |-> "decode", layer |-> p.layer, fresh |-> FALSE, layers |-> op.layers,
          snapshot |-> op.snapshot, by |-> op.name, lists |-> op.lists,
          paired |-> op.paired]
    ELSE [name |-> "decode", layer |-> p.layer, fresh |-> FALSE, layers |-> <<>>,
          snapshot |-> NoSnapshot]

\* a mutant of MaskLoaded: only the LandMask's callback renders
MaskLoaded_LandOnly(layer, img, texMask, mask) ==
    IF layer = "mask" THEN FullRender(img, texMask, mask) ELSE textureCanvas

\* the callback loadSnapshot gives the loadLayer of a mask: renderTextureLayer()
MaskLoaded(layer, img, texMask, mask) == FullRender(img, texMask, mask)

\* img.onload of one loadLayer: the layer is replaced; the masks also re-render
\* the texture layer
DecodeComplete(p) ==
    /\ p \in pendingLoads
    /\ p.src.ok
    /\ pendingLoads' = pendingLoads \ {p}
    /\ op' = AfterLoad(p)
    /\ CASE p.layer = "map" ->
              /\ mapCanvas' = Restore(mapCanvas, p.src, p.w, 100)
              /\ UNCHANGED <<maskCanvas, textureMaskCanvas, textureCanvas, pathCanvas>>
         [] p.layer = "path" ->
              /\ pathCanvas' = Restore(pathCanvas, p.src, p.w, pathAlpha)
              /\ UNCHANGED <<maskCanvas, textureMaskCanvas, textureCanvas, mapCanvas>>
         [] p.layer = "mask" ->
              /\ maskCanvas' = Restore(maskCanvas, p.src, p.w, 100)
              /\ textureCanvas' = MaskLoaded(p.layer, currentTextureImg, textureMaskCanvas,
                                             Restore(maskCanvas, p.src, p.w, 100))
              /\ UNCHANGED <<textureMaskCanvas, mapCanvas, pathCanvas>>
         [] p.layer = "textureMask" ->
              /\ textureMaskCanvas' = Restore(textureMaskCanvas, p.src, p.w, 100)
              /\ textureCanvas' = MaskLoaded(p.layer, currentTextureImg,
                                             Restore(textureMaskCanvas, p.src, p.w, 100),
                                             maskCanvas)
              /\ UNCHANGED <<maskCanvas, mapCanvas, pathCanvas>>
    /\ UNCHANGED <<stampVars, steps, ctxBound, layerWidth, lastAssets, ctxState, pathAlpha,
                   currentTextureImg, riverState,
                   pathRemainder, organicDabs, assetCache, pendingImages, snap,
                   surfaceVars>>

\* an image that does not decode: loadLayer sets no onerror, nothing happens
DecodeError(p) ==
    /\ p \in pendingLoads
    /\ ~p.src.ok
    /\ pendingLoads' = pendingLoads \ {p}
    /\ op' = AfterLoad(p)
    /\ UNCHANGED <<stampVars, steps, ctxBound, layerWidth, lastAssets, ctxState, layerVars,
                   pathAlpha, currentTextureImg,
                   riverState, pathRemainder, organicDabs, assetCache, pendingImages, snap,
                   surfaceVars>>

----------------------------------------------------------------------------
(* MapEngine.updateShallowWater  (MapEngine.ts 250-280) *)

ShelfBlur == 35     \* shadowBlur of the shelf
FadeBlur == 80      \* shadowBlur of the fade
FadeAlpha == 40     \* alpha of the fade's shadowColor, in percent

RECURSIVE SumOver(_, _)
SumOver(pixels, S) ==
    IF S = {} THEN 0
    ELSE LET j == CHOOSE k \in S : TRUE IN pixels[j] + SumOver(pixels, S \ {j})

\* the shadow the land mask casts with the given shadowBlur and colour alpha:
\* the blur (a Gaussian of deviation blur / 2) is taken as the mean of the mask
\* over the pixels no further than blur / 2
Shadow(mask, blur, alpha) ==
    [i \in Pixels |->
       Round(SumOver(mask, {j \in Pixels : Abs(i - j) <= blur \div 2}) * alpha,
             100 * (2 * (blur \div 2) + 1))]

\* the water canvas after updateShallowWater(shallowColor, isEnabled): the mask
\* itself is drawn off the canvas, only its shadows land on it, the shelf three
\* times and the fade once
updateShallowWater(water, bound, mask, isEnabled) ==
    IF ~bound THEN water
    ELSE IF ~isEnabled THEN Blank
    ELSE [i \in Pixels |->
            Fill(Fill(0, Shadow(mask, ShelfBlur, 100)[i], 3),
                 Shadow(mask, FadeBlur, FadeAlpha)[i], 1)]

UpdateShallowWater(isEnabled) ==
    /\ waterCanvas' = updateShallowWater(waterCanvas, ctxBound, maskCanvas, isEnabled)
    /\ op' = [name |-> "updateShallowWater", isEnabled |-> isEnabled]
    /\ steps' = steps + 1
    /\ UNCHANGED <<stampVars, ctxBound, layerWidth, lastAssets, ctxState, layerVars, pathAlpha,
                   currentTextureImg, riverState,
                   pathRemainder, organicDabs, asyncVars, assetCanvas, textCanvas, downloads>>

----------------------------------------------------------------------------
(* MapEngine.drawAssets, drawLabels  (MapEngine.ts 357-457) *)

\* a placed asset: x in sub-pixel units, w (the image width) in pixels; assets
\* are placed unrotated at scale 1
Asset(id, src, x, w) == [id |-> id, src |-> src, x |-> x, w |-> w]

\* pixel i lies under the image drawn at (-w/2, -h/2) around a.x
AssetCovers(a, i) == Abs(Offset2(i, a.x)) <= a.w * SubPx

\* pixel i lies under the selection frame: strokeRect(-w/2 - 5, ..., w + 10, ...)
\* with lineWidth 2
AssetFrame(a, i) == Abs(Abs(Offset2(i, a.x)) - (a.w + 10) * SubPx) <= 2 * SubPx

\* the column of the asset's image drawn on pixel i
AssetColumn(a, i) == (Offset2(i, a.x) + a.w * SubPx) \div (2 * SubPx)

\* one asset drawn on the canvas
DrawAsset(pixels, a, selectedId, activeTool) ==
    [i \in Pixels |->
       LET img   == IF AssetCovers(a, i)
                    THEN Composite("source-over", pixels[i],
                                   PatternAt(Decoded(a.src), AssetColumn(a, i)))
                    ELSE pixels[i]
       IN  IF selectedId = a.id /\ activeTool = "asset" /\ AssetFrame(a, i)
           THEN 100 ELSE img]

\* the loop of drawAssets from the given canvas on: it runs until the list ends
\* or an image is missing from the cache, and yields the canvas and the assets
\* still to draw
\* With c the state of assetCtx. drawImage throws InvalidStateError on an image
\* in the broken state: the exception leaves the loop after save() and
\* translate(), before restore(), and the assets after it are not drawn.
RECURSIVE DrawAssetList(_, _, _, _, _, _)
DrawAssetList(c, pixels, assets, cache, selectedId, activeTool) ==
    IF assets = <<>> \/ Head(assets).src \notin cache
    THEN [pixels |-> pixels, rest |-> assets, ctx |-> c, threw |-> FALSE]
    ELSE IF Decoded(Head(assets).src) = Broken
    THEN [pixels |-> pixels, rest |-> <<>>,
          ctx |-> [save(c) EXCEPT !.origin = @ + Head(assets).x], threw |-> TRUE]
    ELSE DrawAssetList(c, DrawAsset(pixels, [Head(assets) EXCEPT !.x = @ + c.origin],
                                    selectedId, activeTool),
                       Tail(assets), cache, selectedId, activeTool)

\* ctx.clearRect(0, 0, w, h) on the asset canvas: the rectangle starts at the
\* origin of the context's transform
ClearAssets(pixels, c) == [i \in Pixels |-> IF i * SubPx >= c.origin THEN 0 ELSE pixels[i]]

\* the loadImage promise a suspended drawAssets waits for
AssetWait(id, r, selectedId, activeTool) ==
    IF r.rest = <<>> THEN {}
    ELSE {[id |-> id, src |-> Head(r.rest).src, for |-> "drawAssets", rest |-> r.rest,
           selectedId |-> selectedId, activeTool |-> activeTool]}

\* drawAssets(assets, selectedId, activeTool) up to its first await
DrawAssets(assets, selectedId, activeTool) ==
    /\ steps' = steps + 1
    /\ IF ~ctxBound
       THEN /\ op' = [name |-> "drawAssets", assets |-> assets, threw |-> FALSE]
            /\ UNCHANGED <<assetCanvas, pendingImages, ctxState, lastAssets>>
       ELSE \E r \in {DrawAssetList(ctxState["asset"],
                                    ClearAssets(assetCanvas, ctxState["asset"]), assets,
                                    assetCache, selectedId, activeTool)} :
              /\ op' = [name |-> "drawAssets", assets |-> assets, threw |-> r.threw]
              /\ lastAssets' = assets
              /\ assetCanvas' = r.pixels
              /\ ctxState' = [ctxState EXCEPT !["asset"] = r.ctx]
              /\ pendingImages' = pendingImages \cup AssetWait(steps, r, selectedId, activeTool)
    /\ UNCHANGED <<stampVars, ctxBound, layerWidth, layerVars, pathAlpha, currentTextureImg,
                   riverState,
                   pathRemainder, organicDabs, assetCache, pendingLoads, snap, waterCanvas,
                   textCanvas, downloads>>

\* the image a suspended drawAssets waits for has loaded: it is cached and the
\* loop goes on
AssetImageLoaded(p) ==
    /\ p \in pendingImages
    /\ p.for = "drawAssets"
    /\ assetCache' = assetCache \cup {p.src}
    /\ \E r \in {DrawAssetList(ctxState["asset"], assetCanvas, p.rest, assetCache \cup {p.src},
                               p.selectedId, p.activeTool)} :
         /\ assetCanvas' = r.pixels
         /\ ctxState' = [ctxState EXCEPT !["asset"] = r.ctx]
         /\ pendingImages' = (pendingImages \ {p})
                                \cup AssetWait(p.id, r, p.selectedId, p.activeTool)
         /\ op' = [name |-> "imageLoaded", src |-> p.src, for |-> p.for, id |-> p.id,
                   threw |-> r.threw]
    /\ UNCHANGED <<stampVars, steps, ctxBound, layerWidth, lastAssets, layerVars, pathAlpha,
                   currentTextureImg,
                   riverState, pathRemainder, organicDabs, pendingLoads, snap, waterCanvas,
                   textCanvas, downloads>>

\* a label: x in sub-pixel units, size (the font size) and width (the measured
\* width of its text) in pixels; labels are straight (curvature 0) and unrotated
Label(id, x, size, width, hasOutline) ==
    [id |-> id, x |-> x, size |-> size, width |-> width, hasOutline |-> hasOutline]

\* pixel i lies under the text, outlined with lineWidth size / 4 when hasOutline
LabelCovers(l, i) ==
    Abs(Offset2(i, l.x)) * 4
        <= l.width * SubPx * 4 + (IF l.hasOutline THEN l.size * SubPx ELSE 0)

\* pixel i lies under the selection frame: strokeRect(-tw/2, ..., tw, ...) with
\* tw = width + 10 and lineWidth 1
LabelFrame(l, i) == Abs(Abs(Offset2(i, l.x)) - (l.width + 10) * SubPx) <= SubPx

\* the text canvas after drawLabels(labels, selectedId, activeTool)
drawLabels(text, bound, labels, selectedId, activeTool) ==
    IF ~bound THEN text
    ELSE [i \in Pixels |->
            IF \E k \in 1 .. Len(labels) :
                 \/ LabelCovers(labels[k], i)
                 \/ selectedId = labels[k].id /\ activeTool = "text" /\ LabelFrame(labels[k], i)
            THEN 100 ELSE 0]

DrawLabels(labels, selectedId, activeTool) ==
    /\ textCanvas' = drawLabels(textCanvas, ctxBound, labels, selectedId, activeTool)
    /\ op' = [name |-> "drawLabels", labels |-> labels]
    /\ steps' = steps + 1
    /\ UNCHANGED <<stampVars, ctxBound, layerWidth, lastAssets, ctxState, layerVars, pathAlpha,
                   currentTextureImg, riverState,
                   pathRemainder, organicDabs, asyncVars, waterCanvas, assetCanvas, downloads>>

----------------------------------------------------------------------------
(* MapEngine.exportImage  (MapEngine.ts 501-545) *)

\* the composite handed to the browser: the ocean (with its pattern, if any) and
\* the six layers drawn over it in order
Exported(oceanTextureSrc) ==
    [ ocean  |-> oceanTextureSrc,
      layers |-> <<waterCanvas, mapCanvas, textureCanvas, pathCanvas, assetCanvas, textCanvas>> ]

\* exportImage(filename, oceanColor, oceanTextureSrc) up to its await;
\* oceanTextureSrc is "null" or a source
ExportImage(oceanTextureSrc) ==
    /\ op' = [name |-> "exportImage", ocean |-> oceanTextureSrc]
    /\ steps' = steps + 1
    /\ IF ~ctxBound
       THEN UNCHANGED <<downloads, pendingImages>>
       ELSE IF oceanTextureSrc = "null" \/ oceanTextureSrc \in assetCache
       THEN /\ downloads' = Append(downloads, Exported(oceanTextureSrc))
            /\ UNCHANGED pendingImages
       ELSE /\ pendingImages' = pendingImages
                                  \cup {[id |-> steps, src |-> oceanTextureSrc, for |-> "export"]}
            /\ UNCHANGED downloads
    /\ UNCHANGED <<stampVars, ctxBound, layerWidth, lastAssets, ctxState, layerVars, pathAlpha,
                   currentTextureImg, riverState,
                   pathRemainder, organicDabs, assetCache, pendingLoads, snap, waterCanvas,
                   assetCanvas, textCanvas>>

\* the ocean texture has loaded: the layers are composited as they are now
ExportImageLoaded(p) ==
    /\ p \in pendingImages
    /\ p.for = "export"
    /\ pendingImages' = pendingImages \ {p}
    /\ assetCache' = assetCache \cup {p.src}
    /\ downloads' = Append(downloads, Exported(p.src))
    /\ op' = [name |-> "imageLoaded", src |-> p.src, for |-> p.for, id |-> p.id]
    /\ UNCHANGED <<stampVars, steps, ctxBound, layerWidth, lastAssets, ctxState, layerVars,
                   pathAlpha, currentTextureImg,
                   riverState, pathRemainder, organicDabs, pendingLoads, snap, waterCanvas,
                   assetCanvas, textCanvas>>

----------------------------------------------------------------------------
(* App: state  (App.tsx 10-112) *)

\* the fields of INITIAL_STATE the model follows; pathSpacing is in tenths,
\* offsetX in sub-pixel units
INITIAL_STATE ==
    [ activeTool |-> "sculpt", paintMode |-> "terrain", activeTexture |-> "null",
      isTextureEraser |-> FALSE, isShallowWaterEnabled |-> TRUE,
      pathSpacing |-> 25, pathStyle |-> "dots",
      brushSize |-> 15, brushBlur |-> 100, blurWidth |-> 50, roughness |-> 40,
      isOrganicRiver |-> FALSE, offsetX |-> 0, canvasWidth |-> 720,
      assets |-> <<>>, selectedAssetId |-> Null, labels |-> <<>>, selectedLabelId |-> Null ]

\* the state after the App component has mounted
InitApp ==
    /\ isHome = TRUE
    /\ mapName = "My World"
    /\ appState = INITIAL_STATE
    /\ isDrawing = FALSE
    /\ isPanning = FALSE
    /\ activePointers = {}
    /\ lastPos = 0
    /\ rafPending = <<>>
    /\ timers = {}
    /\ undoStack = <<>>
    /\ redoStack = <<>>
    /\ alerts = 0
    /\ uncaught = 0
    /\ strokeSegments = 0
    /\ lastLoad = [started |-> FALSE]

----------------------------------------------------------------------------
(* App: effects, handleCreate, handleLoad  (App.tsx 62-71, 115-160, 538-562) *)

\* window.innerWidth, in pixels: the window is as wide as the widest map
InnerWidth == CanvasW

\* getPaintMode(tool)
getPaintMode(tool) ==
    CASE tool = "sculpt" -> "terrain"
      [] tool = "river"  -> "river"
      [] tool = "sea"    -> "sea"
      [] tool = "paint"  -> "texture"
      [] tool = "path"   -> "path"
      [] OTHER           -> "none"

\* the AppState the engine is handed, by the fields applyPaint and
\* drawPathSegment read; activeTexture is read for its truth value only
EngineState(s) ==
    [ paintMode |-> s.paintMode, brushSize |-> s.brushSize, brushBlur |-> s.brushBlur,
      blurWidth |-> s.blurWidth, roughness |-> s.roughness,
      isOrganicRiver |-> s.isOrganicRiver, activeTexture |-> (s.activeTexture # "null"),
      isTextureEraser |-> s.isTextureEraser, pathSpacing |-> s.pathSpacing,
      pathStyle |-> s.pathStyle ]

\* offsetX: (window.innerWidth - width) / 2, in sub-pixel units
Centred(width) == ((InnerWidth - width) * SubPx) \div 2

\* the effects that run after a render in which AppState went from old to new
\* and isHome from wasHome to nowHome: setGlobalTexture on a new activeTexture,
\* updateShallowWater on a new isShallowWaterEnabled, drawAssets and drawLabels
\* on new assets, labels, selection or tool once the editor is shown
Effects(old, new, wasHome, nowHome) ==
    LET tex      == new.activeTexture
        texCh    == tex # old.activeTexture
        texWait  == IF texCh /\ tex # "null" /\ tex \notin assetCache
                    THEN {[id |-> steps, src |-> tex, for |-> "texture"]} ELSE {}
        img      == IF ~texCh \/ texWait # {} THEN currentTextureImg
                    ELSE IF tex = "null" THEN NoImage ELSE Decoded(tex)
        assetsCh == /\ ~nowHome
                    /\ <<old.assets, old.selectedAssetId, old.activeTool, wasHome>>
                         # <<new.assets, new.selectedAssetId, new.activeTool, nowHome>>
        labelsCh == /\ ~nowHome
                    /\ <<old.labels, old.selectedLabelId, old.activeTool, wasHome>>
                         # <<new.labels, new.selectedLabelId, new.activeTool, nowHome>>
        drawn    == DrawAssetList(ctxState["asset"],
                                  ClearAssets(assetCanvas, ctxState["asset"]), new.assets,
                                  assetCache, new.selectedAssetId, new.activeTool)
    IN  /\ currentTextureImg' = img
        /\ textureCanvas' = IF texCh /\ texWait = {}
                            THEN FullRender(img, textureMaskCanvas, maskCanvas)
                            ELSE textureCanvas
        /\ waterCanvas' = IF new.isShallowWaterEnabled # old.isShallowWaterEnabled
                          THEN updateShallowWater(waterCanvas, ctxBound, maskCanvas,
                                                  new.isShallowWaterEnabled)
                          ELSE waterCanvas
        /\ assetCanvas' = IF assetsCh /\ ctxBound THEN drawn.pixels ELSE assetCanvas
        /\ ctxState' = IF assetsCh /\ ctxBound
                       THEN [ctxState EXCEPT !["asset"] = drawn.ctx] ELSE ctxState
        /\ lastAssets' = IF assetsCh /\ ctxBound THEN new.assets ELSE lastAssets
        /\ textCanvas' = IF labelsCh
                         THEN drawLabels(textCanvas, ctxBound, new.labels, new.selectedLabelId,
                                         new.activeTool)
                         ELSE textCanvas
        /\ pendingImages' = pendingImages \cup texWait
                              \cup (IF assetsCh /\ ctxBound
                                    THEN AssetWait(steps, drawn, new.selectedAssetId,
                                                   new.activeTool)
                                    ELSE {})

\* what the effects leave alone
EffectsFrame ==
    UNCHANGED <<stampVars, ctxBound, layerWidth, maskCanvas, textureMaskCanvas, mapCanvas,
                pathCanvas, pathAlpha, riverState, pathRemainder, organicDabs, assetCache,
                pendingLoads, snap, downloads>>

\* handleCreate(name, w, h), from the home screen
HandleCreate(name, w) ==
    /\ isHome
    /\ mapName' = name
    /\ appState' = [appState EXCEPT !.canvasWidth = w, !.offsetX = Centred(w)]
    /\ isHome' = FALSE
    /\ timers' = timers \cup {[id |-> steps, kind |-> "create", w |-> w]}
    /\ Effects(appState, appState', isHome, FALSE)
    /\ EffectsFrame
    /\ op' = [name |-> "handleCreate"]
    /\ steps' = steps + 1
    /\ UNCHANGED <<isDrawing, isPanning, activePointers, lastPos, rafPending, undoStack,
                   redoStack, alerts, uncaught, strokeSegments, lastLoad>>

\* the setTimeout callback of handleCreate: the canvases are mounted, init runs
CreateTimerFires(t) ==
    /\ t \in timers
    /\ t.kind = "create"
    /\ timers' = timers \ {t}
    /\ EngineInit
    /\ UNCHANGED <<isHome, mapName, appState, isDrawing, isPanning, activePointers, lastPos,
                   rafPending, undoStack, redoStack, alerts, uncaught, strokeSegments,
                   lastLoad>>

\* what a failed load must leave as it was: the map name, the AppState, the
\* home flag and every layer and mask of the engine
Held ==
    <<mapName, appState, isHome, maskCanvas, textureMaskCanvas, mapCanvas, textureCanvas,
      pathCanvas, waterCanvas, assetCanvas, textCanvas>>

\* reader.onload of handleLoad(file), from the home screen: JSON.parse and
\* data.meta.name throw into the catch, which alerts; everything later runs
\* in the timer
HandleLoad(file) ==
    /\ isHome
    /\ lastLoad' = [started |-> TRUE, file |-> file, alerts |-> alerts, before |-> Held]
    /\ op' = [name |-> "handleLoad", file |-> file]
    /\ steps' = steps + 1
    /\ IF ~file.parses \/ ~file.hasMeta
       THEN /\ alerts' = alerts + 1
            /\ UNCHANGED <<mapName, appState, isHome, timers, currentTextureImg, textureCanvas,
                           waterCanvas, assetCanvas, textCanvas, pendingImages, ctxState,
                           lastAssets>>
       ELSE /\ mapName' = file.name
            /\ appState' = [(IF file.hasState THEN file.state ELSE INITIAL_STATE)
                              EXCEPT !.activeTool = "sculpt", !.offsetX = Centred(file.width)]
            /\ isHome' = FALSE
            /\ timers' = timers \cup {[id |-> steps, kind |-> "load", file |-> file]}
            /\ Effects(appState, appState', isHome, FALSE)
            /\ UNCHANGED alerts
    /\ EffectsFrame
    /\ UNCHANGED <<isDrawing, isPanning, activePointers, lastPos, rafPending, undoStack,
                   redoStack, uncaught, strokeSegments>>

\* .then(() => loadSnapshot(data.layers, w, h)) of the load timer: without
\* data.layers the callback throws and rejects a promise nobody handles
ProjectLayers(file, id, texMask) ==
    IF ~file.hasLayers
    THEN /\ uncaught' = uncaught + 1
         /\ textureMaskCanvas' = texMask
         /\ UNCHANGED pendingLoads
    ELSE /\ pendingLoads' = pendingLoads \cup LoadLayers(file.layers, file.width, TRUE, id)
         /\ textureMaskCanvas' = IF file.layers.hasTextureMask THEN texMask
                                 ELSE ClearRect(texMask, file.width)
         /\ UNCHANGED uncaught

\* the setTimeout callback of handleLoad: init, setGlobalTexture(...).then(
\* loadSnapshot), drawAssets, drawLabels; data.state.activeTexture throws out
\* of the callback when the file has no state
LoadTimerFires(t) ==
    /\ t \in timers
    /\ t.kind = "load"
    /\ timers' = timers \ {t}
    /\ op' = [name |-> "loadTimer", file |-> t.file]
    /\ ctxBound' = TRUE
    /\ layerWidth' = AllWidths(t.file.width)
    /\ maskCanvas' = Blank
    /\ mapCanvas' = Blank
    /\ pathCanvas' = Blank
    /\ waterCanvas' = Blank
    /\ textureCanvas' = Blank
    /\ pathAlpha' = 100
    /\ IF ~t.file.hasState
       THEN /\ uncaught' = uncaught + 1
            /\ textureMaskCanvas' = Blank
            /\ assetCanvas' = Blank
            /\ textCanvas' = Blank
            /\ ctxState' = [c \in Contexts |-> DefaultCtx]
            /\ UNCHANGED <<currentTextureImg, pendingImages, pendingLoads, lastAssets>>
       ELSE LET tex   == t.file.state.activeTexture
                ready == tex = "null" \/ tex \in assetCache
                drawn == DrawAssetList(DefaultCtx, Blank, t.file.state.assets, assetCache, Null,
                                       "asset")
            IN  /\ currentTextureImg' = IF ~ready THEN currentTextureImg
                                        ELSE IF tex = "null" THEN NoImage ELSE Decoded(tex)
                /\ assetCanvas' = drawn.pixels
                /\ ctxState' = [c \in Contexts |-> IF c = "asset" THEN drawn.ctx ELSE DefaultCtx]
                /\ lastAssets' = t.file.state.assets
                /\ textCanvas' = drawLabels(Blank, TRUE, t.file.state.labels, Null, "text")
                /\ pendingImages' = pendingImages
                      \cup AssetWait(t.id, drawn, Null, "asset")
                      \cup (IF ready THEN {}
                            ELSE {[id |-> t.id, src |-> tex, for |-> "project",
                                   file |-> t.file]})
                /\ IF ready
                   THEN ProjectLayers(t.file, t.id, Blank)
                   ELSE /\ textureMaskCanvas' = Blank
                        /\ UNCHANGED <<pendingLoads, uncaught>>
    /\ UNCHANGED <<stampVars, steps, riverState, pathRemainder, organicDabs, assetCache, snap,
                   downloads>>
    /\ UNCHANGED <<isHome, mapName, appState, isDrawing, isPanning, activePointers, lastPos,
                   rafPending, undoStack, redoStack, alerts, strokeSegments, lastLoad>>

\* the texture a loading project waits for has loaded: it becomes the current
\* texture, the texture layer is rendered, then loadSnapshot runs
ProjectTextureLoaded(p) ==
    /\ p \in pendingImages
    /\ p.for = "project"
    /\ pendingImages' = pendingImages \ {p}
    /\ assetCache' = assetCache \cup {p.src}
    /\ currentTextureImg' = Decoded(p.src)
    /\ textureCanvas' = FullRender(Decoded(p.src), textureMaskCanvas, maskCanvas)
    /\ ProjectLayers(p.file, p.id, textureMaskCanvas)
    /\ op' = [name |-> "imageLoaded", src |-> p.src]
    /\ UNCHANGED <<stampVars, steps, ctxBound, layerWidth, lastAssets, ctxState, maskCanvas,
                   mapCanvas, pathCanvas, pathAlpha,
                   riverState, pathRemainder, organicDabs, snap, surfaceVars>>
    /\ UNCHANGED <<isHome, mapName, appState, isDrawing, isPanning, activePointers, lastPos,
                   rafPending, timers, undoStack, redoStack, alerts, strokeSegments, lastLoad>>

----------------------------------------------------------------------------
(* App: tools, history and pointer handlers  (App.tsx 162-172, 334-536, 565-583) *)

\* the undo stack keeps this many entries
HistoryLimit == 20

\* the tools whose strokes the pointer handlers below follow; the gestures of
\* the move, asset and text tools (pinch, pan by tool, selection, dragging) are
\* not followed, so the handlers are defined while one of these is active
DrawingTools == {"sculpt", "river", "paint", "path"}

\* setTool(t): the same tool again only toggles the drawer
SetTool(t) ==
    /\ ~isHome
    /\ appState' = IF appState.activeTool = t /\ t # "move" THEN appState
                   ELSE [appState EXCEPT !.activeTool = t, !.paintMode = getPaintMode(t),
                                         !.selectedAssetId = Null, !.selectedLabelId = Null]
    /\ Effects(appState, appState', isHome, isHome)
    /\ EffectsFrame
    /\ op' = [name |-> "setTool", tool |-> t]
    /\ steps' = steps + 1
    /\ UNCHANGED <<isHome, mapName, isDrawing, isPanning, activePointers, lastPos, rafPending,
                   timers, undoStack, redoStack, alerts, uncaught, strokeSegments, lastLoad>>

\* updateState(partial), the drawer's update: setState(s => ({ ...s, ...partial }))
UpdateState(partial) ==
    /\ ~isHome
    /\ appState' = [f \in DOMAIN appState |->
                      IF f \in DOMAIN partial THEN partial[f] ELSE appState[f]]
    /\ Effects(appState, appState', isHome, isHome)
    /\ EffectsFrame
    /\ op' = [name |-> "updateState", partial |-> partial]
    /\ steps' = steps + 1
    /\ UNCHANGED <<isHome, mapName, isDrawing, isPanning, activePointers, lastPos, rafPending,
                   timers, undoStack, redoStack, alerts, uncaught, strokeSegments, lastLoad>>

\* a mutant of PushHistory: the oldest entry is never dropped
PushHistory_NoLimit(stack, h) == Append(stack, h)

\* undoStack.current.push(h); if (length > 20) shift()
PushHistory(stack, h) ==
    LET s == Append(stack, h) IN IF Len(s) > HistoryLimit THEN Tail(s) ELSE s

\* saveHistory(): the redo stack is emptied; a null snapshot pushes nothing
saveHistory ==
    /\ redoStack' = <<>>
    /\ undoStack' = IF ~getSnapshot.taken THEN undoStack
                    ELSE PushHistory(undoStack, [layers |-> getSnapshot,
                                                 assets |-> appState.assets,
                                                 labels |-> appState.labels])

\* stack.pop(): the stack without its last entry
Pop(stack) == SubSeq(stack, 1, Len(stack) - 1)

\* the entry handleUndo and handleRedo push: the current layers, assets and labels
HistoryEntry ==
    [layers |-> getSnapshot, assets |-> appState.assets, labels |-> appState.labels]

\* applyHistoryState(hist): the lists go into the state, loadSnapshot starts
\* decoding the layers, and drawAssets and drawLabels are called 50 ms later
\* with the selection and tool of the render the handler closed over
applyHistoryState(hist) ==
    /\ appState' = [appState EXCEPT !.assets = hist.assets, !.labels = hist.labels]
    /\ pendingLoads' = pendingLoads
                         \cup LoadLayers(hist.layers, appState.canvasWidth, ctxBound, steps)
    /\ textureMaskCanvas' = IF hist.layers.hasTextureMask THEN textureMaskCanvas
                            ELSE ClearRect(textureMaskCanvas, appState.canvasWidth)
    /\ timers' = timers \cup {[id |-> steps, kind |-> "history", assets |-> hist.assets,
                               labels |-> hist.labels,
                               selectedAssetId |-> appState.selectedAssetId,
                               selectedLabelId |-> appState.selectedLabelId,
                               activeTool |-> appState.activeTool]}
    /\ Effects(appState, appState', isHome, isHome)
    /\ UNCHANGED <<stampVars, ctxBound, layerWidth, maskCanvas, mapCanvas, pathCanvas, pathAlpha,
                   riverState, pathRemainder, organicDabs, assetCache, snap, downloads>>

\* history: the last operation was an undo or a decode of its snapshot, so
\* that o.layers and o.lists are the layers and lists just before that undo
ByUndo(o) ==
    \/ o.name = "undo" /\ o.applied
    \/ o.name = "decode" /\ "by" \in DOMAIN o /\ o.by = "undo"

\* what handleUndo and handleRedo leave alone when they return at once
HistoryIdle ==
    UNCHANGED <<undoStack, redoStack, appState, timers, stampVars, engineVars>>

\* handleUndo(): the current state goes on the redo stack, the last entry of
\* the undo stack is applied
HandleUndo ==
    /\ ~isHome
    /\ steps' = steps + 1
    /\ IF undoStack = <<>>
       THEN /\ op' = [name |-> "undo", applied |-> FALSE]
            /\ HistoryIdle
       ELSE /\ redoStack' = IF getSnapshot.taken THEN Append(redoStack, HistoryEntry)
                            ELSE redoStack
            /\ undoStack' = Pop(undoStack)
            /\ applyHistoryState(undoStack[Len(undoStack)])
            /\ op' = [name |-> "undo", applied |-> TRUE, paired |-> FALSE,
                      snapshot |-> undoStack[Len(undoStack)].layers,
                      layers |-> <<maskCanvas, textureMaskCanvas, mapCanvas, pathCanvas>>,
                      lists |-> <<appState.assets, appState.labels>>]
    /\ UNCHANGED <<isHome, mapName, isDrawing, isPanning, activePointers, lastPos, rafPending,
                   alerts, uncaught, strokeSegments, lastLoad>>

\* handleRedo(): the current state goes on the undo stack, the last entry of
\* the redo stack is applied
HandleRedo ==
    /\ ~isHome
    /\ steps' = steps + 1
    /\ IF redoStack = <<>>
       THEN /\ op' = [name |-> "redo", applied |-> FALSE]
            /\ HistoryIdle
       ELSE /\ undoStack' = IF getSnapshot.taken THEN Append(undoStack, HistoryEntry)
                            ELSE undoStack
            /\ redoStack' = Pop(redoStack)
            /\ applyHistoryState(redoStack[Len(redoStack)])
            /\ op' = [name |-> "redo", applied |-> TRUE, paired |-> ByUndo(op),
                      snapshot |-> redoStack[Len(redoStack)].layers,
                      layers |-> IF ByUndo(op) THEN op.layers
                                 ELSE <<maskCanvas, textureMaskCanvas, mapCanvas, pathCanvas>>,
                      lists |-> IF ByUndo(op) THEN op.lists
                                ELSE <<appState.assets, appState.labels>>]
    /\ UNCHANGED <<isHome, mapName, isDrawing, isPanning, activePointers, lastPos, rafPending,
                   alerts, uncaught, strokeSegments, lastLoad>>

\* the setTimeout callback of applyHistoryState: drawAssets, then drawLabels
HistoryTimerFires(t) ==
    /\ t \in timers
    /\ t.kind = "history"
    /\ timers' = timers \ {t}
    /\ op' = [name |-> "historyTimer", assets |-> t.assets, labels |-> t.labels]
    /\ \E r \in {DrawAssetList(ctxState["asset"], ClearAssets(assetCanvas, ctxState["asset"]),
                               t.assets, assetCache, t.selectedAssetId, t.activeTool)} :
         /\ assetCanvas' = IF ctxBound THEN r.pixels ELSE assetCanvas
         /\ ctxState' = IF ctxBound THEN [ctxState EXCEPT !["asset"] = r.ctx] ELSE ctxState
         /\ lastAssets' = IF ctxBound THEN t.assets ELSE lastAssets
         /\ pendingImages' = IF ctxBound
                             THEN pendingImages
                                    \cup AssetWait(t.id, r, t.selectedAssetId, t.activeTool)
                             ELSE pendingImages
    /\ textCanvas' = drawLabels(textCanvas, ctxBound, t.labels, t.selectedLabelId, t.activeTool)
    /\ UNCHANGED <<stampVars, steps, ctxBound, layerWidth, layerVars, pathAlpha,
                   currentTextureImg, riverState, pathRemainder, organicDabs, assetCache,
                   pendingLoads, snap, waterCanvas, downloads>>
    /\ UNCHANGED <<isHome, mapName, appState, isDrawing, isPanning, activePointers, lastPos,
                   rafPending, undoStack, redoStack, alerts, uncaught, strokeSegments, lastLoad>>

\* handleAddText(txt): a label in the middle of the map, selected; the label's
\* width is the measured width of its text
HandleAddText(width) ==
    /\ ~isHome
    /\ appState' = [appState EXCEPT
                      !.labels = Append(@, Label(steps, (appState.canvasWidth * SubPx) \div 2,
                                                 appState.brushSize, width, TRUE)),
                      !.selectedLabelId = steps]
    /\ Effects(appState, appState', isHome, isHome)
    /\ EffectsFrame
    /\ op' = [name |-> "addText"]
    /\ steps' = steps + 1
    /\ UNCHANGED <<isHome, mapName, isDrawing, isPanning, activePointers, lastPos, rafPending,
                   timers, undoStack, redoStack, alerts, uncaught, strokeSegments, lastLoad>>

\* getCanvasPoint(clientX, clientY) at zoom 1
getCanvasPoint(clientX) == clientX - appState.offsetX

\* handlePointerDown(e) with e.clientX = x
HandlePointerDown(e, x) ==
    /\ ~isHome
    /\ appState.activeTool \in DrawingTools
    /\ activePointers' = activePointers \cup {e.id}
    /\ steps' = steps + 1
    /\ IF ~e.isPrimary /\ e.pointerType = "touch"
       THEN \* a non-primary touch pans, if it is the only pointer
            /\ isPanning' = IF Cardinality(activePointers') = 1 THEN TRUE ELSE isPanning
            /\ lastPos' = IF Cardinality(activePointers') = 1 THEN x ELSE lastPos
            /\ op' = [name |-> "pointerDown", branch |-> "pan"]
            /\ UNCHANGED <<isDrawing, undoStack, redoStack, strokeSegments, stampVars,
                           engineVars>>
       ELSE IF Cardinality(activePointers') > 1
       THEN \* a second pointer stops the drawing
            /\ isDrawing' = FALSE
            /\ op' = [name |-> "pointerDown", branch |-> "multi"]
            /\ UNCHANGED <<isPanning, lastPos, undoStack, redoStack, strokeSegments, stampVars,
                           engineVars>>
       ELSE \* a stroke starts
            /\ lastPos' = getCanvasPoint(x)
            /\ saveHistory
            /\ isDrawing' = TRUE
            /\ strokeSegments' = 0
            /\ pathRemainder' = IF appState.activeTool = "path" THEN 0 ELSE pathRemainder
            /\ PaintCall(getCanvasPoint(x), EngineState(appState))
            /\ UNCHANGED isPanning
    /\ UNCHANGED <<isHome, mapName, appState, rafPending, timers, alerts, uncaught, lastLoad>>

\* a mutant of HandlePointerMove: every event requests a frame of its own
HandlePointerMove_Unthrottled(e, x) ==
    /\ ~isHome
    /\ appState.activeTool \in DrawingTools
    /\ rafPending' = Append(rafPending, [x |-> x, state |-> appState])
    /\ op' = [name |-> "pointerMove", x |-> x]
    /\ UNCHANGED <<stampVars, steps, engineVars>>
    /\ UNCHANGED <<isHome, mapName, appState, isDrawing, isPanning, activePointers, lastPos,
                   timers, undoStack, redoStack, alerts, uncaught, strokeSegments, lastLoad>>

\* handlePointerMove(e) with e.clientX = x: one processPointerMove is requested
\* per animation frame, by the render that handled the event
HandlePointerMove(e, x) ==
    /\ ~isHome
    /\ appState.activeTool \in DrawingTools
    /\ rafPending' = IF rafPending = <<>> THEN <<[x |-> x, state |-> appState]>>
                     ELSE rafPending
    /\ op' = [name |-> "pointerMove", x |-> x]
    /\ UNCHANGED <<stampVars, steps, engineVars>>
    /\ UNCHANGED <<isHome, mapName, appState, isDrawing, isPanning, activePointers, lastPos,
                   timers, undoStack, redoStack, alerts, uncaught, strokeSegments, lastLoad>>

\* the animation frame: processPointerMove(clientX, clientY) of the render that
\* requested it
AnimationFrame ==
    /\ rafPending # <<>>
    /\ rafPending' = <<>>
    /\ steps' = steps + 1
    /\ LET x == rafPending[1].x
           state == rafPending[1].state
       IN  IF isPanning /\ Cardinality(activePointers) = 1
           THEN /\ appState' = [appState EXCEPT !.offsetX = @ + (x - lastPos)]
                /\ lastPos' = x
                /\ op' = [name |-> "processPointerMove", branch |-> "pan"]
                /\ UNCHANGED <<strokeSegments, stampVars, engineVars>>
           ELSE IF isDrawing
           THEN /\ lastPos' = getCanvasPoint(x)
                /\ UNCHANGED appState
                /\ IF state.activeTool = "path"
                   THEN /\ PathCall(lastPos, getCanvasPoint(x), EngineState(state))
                        /\ strokeSegments' = strokeSegments + 1
                   ELSE /\ PaintCall(getCanvasPoint(x), EngineState(state))
                        /\ UNCHANGED <<pathRemainder, strokeSegments>>
           ELSE /\ op' = [name |-> "processPointerMove", branch |-> "idle"]
                /\ UNCHANGED <<appState, lastPos, strokeSegments, stampVars, engineVars>>
    /\ UNCHANGED <<isHome, mapName, isDrawing, isPanning, activePointers, timers, undoStack,
                   redoStack, alerts, uncaught, lastLoad>>

\* handlePointerUp(e), the handler of pointerup, pointerleave and pointercancel
HandlePointerUp(e, event) ==
    /\ ~isHome
    /\ appState.activeTool \in DrawingTools
    /\ activePointers' = activePointers \ {e.id}
    /\ isPanning' = IF Cardinality(activePointers') < 2 THEN FALSE ELSE isPanning
    /\ isDrawing' = IF activePointers' = {} THEN FALSE ELSE isDrawing
    /\ waterCanvas' = IF /\ activePointers' = {}
                         /\ isDrawing
                         /\ appState.activeTool \in {"sculpt", "river"}
                      THEN updateShallowWater(waterCanvas, ctxBound, maskCanvas,
                                              appState.isShallowWaterEnabled)
                      ELSE waterCanvas
    /\ pathRemainder' = IF activePointers' = {} /\ isDrawing /\ appState.activeTool = "path"
                        THEN 0 ELSE pathRemainder
    /\ op' = [name |-> event]
    /\ steps' = steps + 1
    /\ UNCHANGED <<stampVars, ctxBound, layerWidth, lastAssets, ctxState, layerVars, pathAlpha,
                   currentTextureImg, riverState,
                   organicDabs, asyncVars, assetCanvas, textCanvas, downloads>>
    /\ UNCHANGED <<isHome, mapName, appState, lastPos, rafPending, timers, undoStack,
                   redoStack, alerts, uncaught, strokeSegments, lastLoad>>

----------------------------------------------------------------------------
(* Specification SpecStamp: calls of StochasticStamp.generate *)

StampSizes == {1 * FactorDen, 2 * FactorDen}
StampRoughness == {0, 40, 100}
StampBlurWidths == {50, 95, 100}
RoughOverrides == {Null, 0}
BlurOverrides == {Null, 95, 100}

InitStampSpec ==
    /\ StochasticStamp = InitStamp
    /\ genCount = 0
    /\ steps = 0
    /\ op = [name |-> "new"]
    /\ InitEngine
    /\ InitApp

Generate ==
    /\ steps < MaxStampCalls
    /\ \E size \in StampSizes, r \in StampRoughness, b \in StampBlurWidths,
          ro \in RoughOverrides, bo \in BlurOverrides, k0 \in Randoms, k18 \in Randoms :
         LET st2 == generate(StochasticStamp, size, r, b, ro, bo, k0, k18) IN
         /\ StochasticStamp' = st2
         /\ genCount' = genCount + Regenerated(StochasticStamp, st2, size, r, b, ro, bo)
         /\ op' = [name |-> "generate", size |-> size,
                   roughness |-> Resolve(ro, r), blurWidth |-> Resolve(bo, b)]
    /\ steps' = steps + 1
    /\ UNCHANGED engineVars
    /\ UNCHANGED appVars

NextStamp == Generate

SpecStamp == InitStampSpec /\ [][NextStamp]_vars

----------------------------------------------------------------------------
(* C1 *)

\* the resolved key of the call recorded in o equals the key of the cache st
SameKey(o, st) ==
    /\ o.size = st.lastSize
    /\ o.roughness = st.lastRoughness
    /\ o.blurWidth = st.lastBlurWidth

\* C1: generate is a single-slot cache keyed by (size, resolved roughness,
\* resolved falloff width): a call whose resolved key equals the key of the
\* previous generation leaves the cached stamp and the key unchanged and does
\* not regenerate; a call whose key differs in any field regenerates and
\* records the new key.
C1_SingleSlotCache ==
    [][ op'.name = "generate" /\ steps' = steps + 1 =>
          IF SameKey(op', StochasticStamp)
          THEN StochasticStamp' = StochasticStamp /\ genCount' = genCount
          ELSE /\ genCount' = genCount + 1
               /\ SameKey(op', StochasticStamp') ]_vars

\* a cache hit on a generated stamp and a regeneration for a changed key both happened
C1_Witness ==
    /\ op.name = "generate"
    /\ genCount >= 2
    /\ steps > genCount

----------------------------------------------------------------------------
(* Specification SpecSculpt: terrain and river dabs on an initialised engine *)

MaxSculptSteps == 3

\* the fields of AppState that applyPaint reads
PaintState(mode, size, opacity, blurWidth, roughness, organic, texture, eraser) ==
    [ paintMode |-> mode, brushSize |-> size, brushBlur |-> opacity, blurWidth |-> blurWidth,
      roughness |-> roughness, isOrganicRiver |-> organic, activeTexture |-> texture,
      isTextureEraser |-> eraser ]

BrushSizes == {1, 2}
Opacities == {0, 50, 100}
\* dab centres: on the canvas, between two pixel centres, and far off the canvas
DabXs == {2, 3 * SubPx + 1, 30 * SubPx}

InitSculpt ==
    /\ StochasticStamp = InitStamp
    /\ genCount = 0
    /\ steps = 0
    /\ op = [name |-> "new"]
    /\ InitEngine
    /\ InitApp

SculptInit ==
    /\ steps = 0
    /\ EngineInit
    /\ UNCHANGED appVars

SculptTerrainDab ==
    /\ steps < MaxSculptSteps
    /\ \E x \in DabXs, size \in BrushSizes, o \in Opacities, r \in {0, 100} :
         ApplyPaint(x, PaintState("terrain", size, o, 50, r, FALSE, FALSE, FALSE))
    /\ UNCHANGED appVars

SculptRiverDab ==
    /\ steps < MaxSculptSteps
    /\ \E x \in DabXs, size \in BrushSizes, r \in {0, 100}, organic \in BOOLEAN :
         ApplyPaint(x, PaintState("river", size, 100, 50, r, organic, FALSE, FALSE))
    /\ UNCHANGED appVars

NextSculpt == SculptInit \/ SculptTerrainDab \/ SculptRiverDab

SpecSculpt == InitSculpt /\ [][NextSculpt]_vars

----------------------------------------------------------------------------
(* C2 *)

\* the pixels that are empty in canvas a and not empty in canvas b
NewlyCovered(a, b) == {i \in Pixels : a[i] = 0 /\ b[i] > 0}

\* C2: every terrain or river dab draws into LandMask and VisibleTerrainLayer
\* with the same rotation and the same stamp (the second draw is a cache hit),
\* and the pixels it newly makes land are exactly the pixels it newly colours,
\* for every brush opacity from 0 to 100 percent.
C2_SameSilhouette ==
    [][ op'.name = "applyPaint" /\ op'.mode \in {"terrain", "river"} /\ steps' = steps + 1 =>
          /\ op'.rotMask = op'.rotMap
          /\ op'.regenMap = 0
          /\ NewlyCovered(maskCanvas, maskCanvas') = NewlyCovered(mapCanvas, mapCanvas') ]_vars

----------------------------------------------------------------------------
(* Specification SpecPath: path segments on an initialised engine *)

MaxPathSteps == 3

PathStarts == {0, 3}
\* segment lengths in sub-pixel units, shorter and longer than half a pixel
PathLengths == {1, 2, SubPx, 2 * SubPx + 1}
PathStates ==
    { PathState(size, sp, style, 100) :
        size \in {1, 2}, sp \in {1, 25}, style \in {"dots", "dashed"} }

InitPath ==
    /\ StochasticStamp = InitStamp
    /\ genCount = 0
    /\ steps = 0
    /\ op = [name |-> "new"]
    /\ InitEngine
    /\ InitApp

PathInit ==
    /\ steps = 0
    /\ EngineInit
    /\ UNCHANGED appVars

PathSegment ==
    /\ 0 < steps /\ steps < MaxPathSteps
    /\ \E x1 \in PathStarts, len \in PathLengths, dir \in {-1, 1}, state \in PathStates :
         DrawPathSegment(x1, x1 + dir * len, state)
    /\ UNCHANGED appVars

PathStrokeBoundary ==
    /\ 0 < steps /\ steps < MaxPathSteps
    /\ ResetPathRemainder
    /\ UNCHANGED appVars

NextPath == PathInit \/ PathSegment \/ PathStrokeBoundary

SpecPath == InitPath /\ [][NextPath]_vars

----------------------------------------------------------------------------
(* C3 *)

\* the points strictly or weakly between a and b
Between(a, b) == Min(a, b) .. Max(a, b)

\* C3: from the same PathRemainder and with the same brush size, spacing and
\* style, one drawPathSegment call over a straight segment and two consecutive
\* collinear calls over its two parts place marks at the same positions and leave
\* the same PathRemainder, for every split point, parts shorter than 0.5 px included.
C3_SplitEquivalence ==
    [][ op'.name = "drawPathSegment" /\ steps' = steps + 1 =>
          \A m \in Between(op'.x1, op'.x2) :
             LET a == drawPathSegment(ctxBound, pathCanvas, pathAlpha, pathRemainder,
                                      op'.x1, m, op'.state)
                 b == drawPathSegment(ctxBound, a.pixels, a.alpha, a.remainder,
                                      m, op'.x2, op'.state)
             IN  /\ a.marks \cup b.marks = op'.marks
                 /\ b.remainder = pathRemainder' ]_vars

----------------------------------------------------------------------------
(* Specification SpecRiver: river dabs, organic or not, between terrain dabs *)

MaxRiverSteps == 4

RiverXs == {2, 3 * SubPx + 1, 30 * SubPx}

InitRiverSpec ==
    /\ StochasticStamp = InitStamp
    /\ genCount = 0
    /\ steps = 0
    /\ op = [name |-> "new"]
    /\ InitEngine
    /\ InitApp

RiverInit ==
    /\ steps = 0
    /\ EngineInit
    /\ UNCHANGED appVars

RiverOrganicDab ==
    /\ steps < MaxRiverSteps
    /\ \E x \in RiverXs :
         ApplyPaint(x, PaintState("river", 2, 100, 50, 0, TRUE, FALSE, FALSE))
    /\ UNCHANGED appVars

RiverPlainDab ==
    /\ steps < MaxRiverSteps
    /\ \E x \in RiverXs :
         ApplyPaint(x, PaintState("river", 2, 100, 50, 0, FALSE, FALSE, FALSE))
    /\ UNCHANGED appVars

RiverTerrainDab ==
    /\ steps < MaxRiverSteps
    /\ \E x \in RiverXs :
         ApplyPaint(x, PaintState("terrain", 2, 100, 50, 0, FALSE, FALSE, FALSE))
    /\ UNCHANGED appVars

NextRiver == RiverInit \/ RiverOrganicDab \/ RiverPlainDab \/ RiverTerrainDab

SpecRiver == InitRiverSpec /\ [][NextRiver]_vars

----------------------------------------------------------------------------
(* C8 *)

\* C8: on every organic river dab the new currentWidthFactor is
\* old + 0.15 * (target - old) for the target in force after the dab's possible
\* re-targeting, so the gap to the target shrinks by exactly the factor 0.85,
\* and the factor moves toward the target without crossing it.
C8_Smoothing ==
    [][ /\ op'.name = "applyPaint" /\ op'.mode = "river" /\ op'.state.isOrganicRiver
        /\ steps' = steps + 1
        => LET old    == riverState.currentWidthFactor
               new    == riverState'.currentWidthFactor
               target == riverState'.targetWidthFactor
           IN  /\ 20 * (new - old) = 3 * (target - old)
               /\ 20 * (target - new) = 17 * (target - old)
               /\ old <= target => old <= new /\ new <= target
               /\ old >= target => target <= new /\ new <= old ]_vars

\* an organic dab that kept its target has just moved the factor toward it, after
\* an earlier organic dab picked that target
C8_Witness ==
    /\ op.name = "applyPaint" /\ op.mode = "river" /\ op.state.isOrganicRiver
    /\ organicDabs >= 2
    /\ riverState.traveledSinceChange > 0
    /\ riverState.currentWidthFactor # riverState.targetWidthFactor
    /\ riverState.currentWidthFactor # FactorDen

----------------------------------------------------------------------------
(* Specification SpecSnapshot: dabs and path segments, then capture and restore *)

MaxSnapSteps == 5

SnapDabXs == {2 * SubPx, 3 * SubPx + 1}
SnapOpacities == {50, 100}

InitSnapshot ==
    /\ StochasticStamp = InitStamp
    /\ genCount = 0
    /\ steps = 0
    /\ op = [name |-> "new"]
    /\ InitEngine
    /\ InitApp

SnapInit ==
    /\ steps = 0
    /\ EngineInit
    /\ UNCHANGED appVars

SnapTerrainDab ==
    /\ 0 < steps /\ steps < MaxSnapSteps - 2
    /\ \E x \in SnapDabXs, o \in SnapOpacities :
         ApplyPaint(x, PaintState("terrain", 1, o, 50, 0, FALSE, FALSE, FALSE))
    /\ UNCHANGED appVars

SnapTextureDab ==
    /\ 0 < steps /\ steps < MaxSnapSteps - 2
    /\ \E x \in SnapDabXs, o \in SnapOpacities :
         ApplyPaint(x, PaintState("texture", 1, o, 100, 0, FALSE, TRUE, FALSE))
    /\ UNCHANGED appVars

SnapPathSegment ==
    /\ 0 < steps /\ steps < MaxSnapSteps - 2
    /\ \E x2 \in SnapDabXs, o \in SnapOpacities :
         DrawPathSegment(0, x2, PathState(1, 10, "dots", o))
    /\ UNCHANGED appVars

SnapCapture ==
    /\ 0 < steps /\ steps < MaxSnapSteps - 1
    /\ GetSnapshot
    /\ UNCHANGED appVars

SnapRestore ==
    /\ steps < MaxSnapSteps
    /\ snap.taken
    /\ LoadSnapshot(snap, CanvasW)
    /\ UNCHANGED appVars

SnapDecode ==
    /\ \E p \in pendingLoads : DecodeComplete(p)
    /\ UNCHANGED appVars

NextSnapshot ==
    \/ SnapInit
    \/ SnapTerrainDab
    \/ SnapTextureDab
    \/ SnapPathSegment
    \/ SnapCapture
    \/ SnapRestore
    \/ SnapDecode

SpecSnapshot == InitSnapshot /\ [][NextSnapshot]_vars

----------------------------------------------------------------------------
(* C4 *)

\* C4: after init and any dabs and path segments, getSnapshot followed by
\* loadSnapshot of that snapshot with the canvas dimensions leaves LandMask,
\* TextureMask, the terrain layer and the path layer, once all four decodes have
\* completed and nothing else intervened, with the pixels they held at capture.
C4_RoundTrip ==
    (op.name = "decode" /\ op.fresh /\ pendingLoads = {})
        => <<maskCanvas, textureMaskCanvas, mapCanvas, pathCanvas>> = op.layers

----------------------------------------------------------------------------
(* Specification SpecTexture: a pattern image, land, texture dabs and renders *)

MaxTextureSteps == 6

TextureDabXs == {2, 2 * SubPx}
\* the dirty regions asked of renderTextureLayer: none, a small square, and squares
\* that reach exactly or just beyond both edges of the canvas
RenderArgs ==
    { NoDirty,
      Dirty(2, FactorDen),
      Dirty((CanvasW * SubPx) \div 2, (CanvasW * FactorDen) \div 2),
      Dirty((CanvasW * SubPx) \div 2 - 1, (CanvasW * FactorDen) \div 2 + FactorDen \div 4),
      Dirty(CanvasW * SubPx, 2 * CanvasW * FactorDen) }

InitTexture ==
    /\ StochasticStamp = InitStamp
    /\ genCount = 0
    /\ steps = 0
    /\ op = [name |-> "new"]
    /\ InitEngine
    /\ InitApp

TexInit ==
    /\ steps = 0
    /\ EngineInit
    /\ UNCHANGED appVars

\* the pattern is chosen once in a behaviour
TexSetTexture ==
    /\ 0 < steps /\ steps < MaxTextureSteps
    /\ ~currentTextureImg.set /\ pendingImages = {}
    /\ \E src \in Sources : SetGlobalTexture(src)
    /\ UNCHANGED appVars

TexImageLoaded ==
    /\ \E p \in pendingImages : ImageLoaded(p)
    /\ UNCHANGED appVars

TexTerrainDab ==
    /\ 0 < steps /\ steps < MaxTextureSteps
    /\ \E x \in TextureDabXs :
         ApplyPaint(x, PaintState("terrain", 2, 100, 50, 0, FALSE, FALSE, FALSE))
    /\ UNCHANGED appVars

TexPaintDab ==
    /\ 0 < steps /\ steps < MaxTextureSteps
    /\ \E x \in TextureDabXs, size \in BrushSizes :
         ApplyPaint(x, PaintState("texture", size, 100, 100, 0, FALSE, TRUE, FALSE))
    /\ UNCHANGED appVars

\* the eraser, over the brush opacities and softness values of the drawer's sliders
TexEraseDab ==
    /\ 0 < steps /\ steps < MaxTextureSteps
    /\ \E o \in {50, 100}, soft \in {50, 100} :
         ApplyPaint(2, PaintState("texture", 1, o, soft, 0, FALSE, TRUE, TRUE))
    /\ UNCHANGED appVars

TexRender ==
    /\ 0 < steps /\ steps < MaxTextureSteps
    /\ \E d \in RenderArgs : RenderTextureLayer(d)
    /\ UNCHANGED appVars

NextTexture ==
    \/ TexInit
    \/ TexSetTexture
    \/ TexImageLoaded
    \/ TexTerrainDab
    \/ TexPaintDab
    \/ TexEraseDab
    \/ TexRender

SpecTexture == InitTexture /\ [][NextTexture]_vars

----------------------------------------------------------------------------
(* C5 *)

\* pixel i lies in the footprint of the stamp the last texture dab drew
InFootprint(i) == StampAlpha(op.stamp, Rotate(op.rot, Offset2(i, op.x))) > 0

\* pixel i lies in the dirty square of the last texture dab
InDirtySquare(i) ==
    LET d == Dirty(op.x, 3 * op.state.brushSize * FactorDen)
    IN  DirtyLeft(d) <= i /\ i < DirtyLeft(d) + DirtySize(d)

\* C5: with a pattern active and the eraser on, one texture dab empties every
\* pixel of its stamp footprint in TextureMask and in the visible texture layer,
\* and leaves the visible texture layer outside the dirty square unchanged,
\* for every brush opacity and softness.
C5_EraserRemoves ==
    (op.name = "applyPaint" /\ op.mode = "texture" /\ op.state.isTextureEraser
       /\ currentTextureImg.set)
        => \A i \in Pixels :
             /\ InFootprint(i) => (textureMaskCanvas[i] = 0 /\ textureCanvas[i] = 0)
             /\ ~InDirtySquare(i) => textureCanvas[i] = op.before[i]

----------------------------------------------------------------------------
(* C9 *)

\* the dirty square [x - r, x + r] contains the whole canvas [0, CanvasW]
Covers(d) ==
    /\ d.given
    /\ d.x * FactorDen - d.r * SubPx <= 0
    /\ d.x * FactorDen + d.r * SubPx >= CanvasW * SubPx * FactorDen

\* C9: renderTextureLayer with a dirty square that covers the whole canvas
\* leaves the visible texture layer as renderTextureLayer without a dirty region
\* would, for every pattern image, TextureMask and LandMask, with a pattern
\* image and without one.
C9_CoveringDirtyIsFull ==
    (op.name = "renderTextureLayer" /\ Covers(op.dirty))
        => textureCanvas = renderTextureLayer(op.before, ctxBound, currentTextureImg,
                                              textureMaskCanvas, maskCanvas, NoDirty)

\* a covering render that had something to repair, with a pattern image
C9_Witness ==
    /\ op.name = "renderTextureLayer"
    /\ Covers(op.dirty)
    /\ currentTextureImg.set
    /\ textureCanvas # op.before
    /\ \E i \in Pixels : textureCanvas[i] > 0

----------------------------------------------------------------------------
(* Specification SpecPreInit: calls that reach the engine before and around init *)

MaxPreInitSteps == 3

\* the image of a layer saved in a project file: land on its first n pixels
FileImage(n) == [ok |-> TRUE, px |-> [k \in 1 .. CanvasW |-> IF k <= n THEN 100 ELSE 0]]

\* the layers of a project file; older files carry no textureMask
FileSnapshot(n, hasTextureMask) ==
    [ taken |-> TRUE, map |-> FileImage(n), mask |-> FileImage(n),
      hasTextureMask |-> hasTextureMask, textureMask |-> FileImage(1), path |-> FileImage(0) ]

FileSnapshots == { FileSnapshot(n, t) : n \in {1, 2}, t \in BOOLEAN }

InitPreInit ==
    /\ StochasticStamp = InitStamp
    /\ genCount = 0
    /\ steps = 0
    /\ op = [name |-> "new"]
    /\ InitEngine
    /\ InitApp

PreApplyPaint ==
    /\ ~ctxBound /\ steps < MaxPreInitSteps
    /\ \E mode \in {"terrain", "river", "texture"} :
         ApplyPaint(2 * SubPx, PaintState(mode, 1, 100, 50, 0, FALSE, TRUE, FALSE))
    /\ UNCHANGED appVars

PreDrawPathSegment ==
    /\ ~ctxBound /\ steps < MaxPreInitSteps
    /\ DrawPathSegment(0, 2 * SubPx, PathState(1, 10, "dots", 50))
    /\ UNCHANGED appVars

PreRenderTextureLayer ==
    /\ ~ctxBound /\ steps < MaxPreInitSteps
    /\ \E d \in {NoDirty, Dirty(2, FactorDen)} : RenderTextureLayer(d)
    /\ UNCHANGED appVars

PreUpdateShallowWater ==
    /\ ~ctxBound /\ steps < MaxPreInitSteps
    /\ \E isEnabled \in BOOLEAN : UpdateShallowWater(isEnabled)
    /\ UNCHANGED appVars

PreDrawAssets ==
    /\ ~ctxBound /\ steps < MaxPreInitSteps
    /\ DrawAssets(<<Asset(1, "grass", 2 * SubPx, 2)>>, Null, "asset")
    /\ UNCHANGED appVars

PreDrawLabels ==
    /\ ~ctxBound /\ steps < MaxPreInitSteps
    /\ DrawLabels(<<Label(1, 2 * SubPx, 1, 2, TRUE)>>, Null, "text")
    /\ UNCHANGED appVars

PreExportImage ==
    /\ ~ctxBound /\ steps < MaxPreInitSteps
    /\ \E src \in {"null", "grass"} : ExportImage(src)
    /\ UNCHANGED appVars

PreGetSnapshot ==
    /\ ~ctxBound /\ steps < MaxPreInitSteps
    /\ GetSnapshot
    /\ UNCHANGED appVars

PreLoadSnapshot ==
    /\ ~ctxBound /\ steps < MaxPreInitSteps
    /\ \E s \in FileSnapshots : LoadSnapshot(s, CanvasW)
    /\ UNCHANGED appVars

PreDecode ==
    /\ \E p \in pendingLoads : DecodeComplete(p)
    /\ UNCHANGED appVars

PreInit ==
    /\ ~ctxBound /\ steps <= MaxPreInitSteps
    /\ EngineInit
    /\ UNCHANGED appVars

NextPreInit ==
    \/ PreApplyPaint
    \/ PreDrawPathSegment
    \/ PreRenderTextureLayer
    \/ PreUpdateShallowWater
    \/ PreDrawAssets
    \/ PreDrawLabels
    \/ PreExportImage
    \/ PreGetSnapshot
    \/ PreLoadSnapshot
    \/ PreDecode
    \/ PreInit

SpecPreInit == InitPreInit /\ [][NextPreInit]_vars

----------------------------------------------------------------------------
(* C6 *)

\* C6: before init has bound the layer targets, every engine entry point that
\* draws returns leaving every layer, both masks, riverState and pathRemainder
\* unchanged, and getSnapshot returns null.
C6_PreInitNoOps ==
    [][ (~ctxBound /\ ~ctxBound')
          => /\ UNCHANGED <<layerVars, waterCanvas, assetCanvas, textCanvas, riverState,
                            pathRemainder>>
             /\ (op'.name = "getSnapshot" => snap' = NoSnapshot) ]_vars

----------------------------------------------------------------------------
(* Specification SpecLoad: project files opened from the home screen *)

MaxLoadSteps == 3

\* what a saved AppState holds: the texture in use and a brush opacity
SavedState(texture) ==
    [INITIAL_STATE EXCEPT !.activeTexture = texture, !.brushBlur = 50,
                          !.canvasWidth = CanvasW]

\* a project file: whether its text parses, which of meta, state and layers it
\* has, and their contents
ProjectFile(parses, hasMeta, hasState, hasLayers, texture, layers) ==
    [ parses |-> parses, hasMeta |-> hasMeta, hasState |-> hasState, hasLayers |-> hasLayers,
      name |-> "Saved", width |-> CanvasW, state |-> SavedState(texture), layers |-> layers ]

SavedLayers == FileSnapshot(2, TRUE)

\* the blob of one layer does not decode
BadLayers == { [SavedLayers EXCEPT ![l] = BadDataURL] : l \in {"map", "mask", "path"} }

GoodFiles == { ProjectFile(TRUE, TRUE, TRUE, TRUE, t, SavedLayers) : t \in {"null", "grass"} }

FailingFiles ==
    { ProjectFile(FALSE, FALSE, FALSE, FALSE, "null", SavedLayers),
      ProjectFile(TRUE, FALSE, TRUE, TRUE, "null", SavedLayers),
      ProjectFile(TRUE, TRUE, FALSE, TRUE, "null", SavedLayers),
      ProjectFile(TRUE, TRUE, TRUE, FALSE, "null", SavedLayers) }
    \cup { ProjectFile(TRUE, TRUE, TRUE, TRUE, "grass", l) : l \in BadLayers }

ProjectFiles == GoodFiles \cup FailingFiles

InitLoad ==
    /\ StochasticStamp = InitStamp
    /\ genCount = 0
    /\ steps = 0
    /\ op = [name |-> "new"]
    /\ InitEngine
    /\ InitApp

LoadFile == steps < MaxLoadSteps /\ \E file \in ProjectFiles : HandleLoad(file)

LoadTimer == \E t \in timers : LoadTimerFires(t)

LoadEffectTexture == \E p \in pendingImages : ImageLoaded(p) /\ UNCHANGED appVars

LoadProjectTexture == \E p \in pendingImages : ProjectTextureLoaded(p)

LoadDecode == \E p \in pendingLoads : DecodeComplete(p) /\ UNCHANGED appVars

LoadDecodeError == \E p \in pendingLoads : DecodeError(p) /\ UNCHANGED appVars

NextLoad ==
    \/ LoadFile
    \/ LoadTimer
    \/ LoadEffectTexture
    \/ LoadProjectTexture
    \/ LoadDecode
    \/ LoadDecodeError

SpecLoad == InitLoad /\ [][NextLoad]_vars

\* the file cannot be loaded: it does not parse, or lacks meta, state or
\* layers, or one of its layer blobs does not decode
Failing(file) ==
    \/ ~file.parses
    \/ ~file.hasMeta
    \/ ~file.hasState
    \/ ~file.hasLayers
    \/ \E l \in {"map", "mask", "textureMask", "path"} : ~file.layers[l].ok

\* nothing of the load is still to run
LoadSettled == timers = {} /\ pendingImages = {} /\ pendingLoads = {}

\* C7: once the load of a project file that cannot be loaded has run to its
\* end, the failure has been reported exactly once (one alert), and the map
\* name, the AppState, the home flag and the engine's layers and masks are
\* what they were before the load
C7_FailedLoadReported ==
    (lastLoad.started /\ Failing(lastLoad.file) /\ LoadSettled)
        => (alerts = lastLoad.alerts + 1 /\ Held = lastLoad.before)

----------------------------------------------------------------------------
(* Specification SpecPointer: strokes drawn with pointers on a new map *)

MaxPointerSteps == 6

\* a mouse, a first finger and a further finger
Pointers ==
    { [id |-> 1, pointerType |-> "mouse", isPrimary |-> TRUE],
      [id |-> 2, pointerType |-> "touch", isPrimary |-> TRUE],
      [id |-> 3, pointerType |-> "touch", isPrimary |-> FALSE] }

\* e.clientX, in sub-pixel units
PointerXs == {SubPx, 3 * SubPx}

PointerTools == {"sculpt", "path"}

InitPointer ==
    /\ StochasticStamp = InitStamp
    /\ genCount = 0
    /\ steps = 0
    /\ op = [name |-> "new"]
    /\ InitEngine
    /\ InitApp

PtrCreate == steps < MaxPointerSteps /\ HandleCreate("New Map", CanvasW)

PtrCreateTimer == \E t \in timers : CreateTimerFires(t)

PtrSetTool == steps < MaxPointerSteps /\ \E t \in PointerTools : SetTool(t)

\* a pointer that is down goes down again only after it went up
PtrDown ==
    /\ steps < MaxPointerSteps
    /\ \E e \in Pointers, x \in PointerXs : e.id \notin activePointers /\ HandlePointerDown(e, x)

PtrMove == ~isHome /\ \E e \in Pointers, x \in PointerXs : HandlePointerMove(e, x)

PtrFrame == steps < MaxPointerSteps /\ AnimationFrame

PtrUp ==
    /\ steps < MaxPointerSteps
    /\ \E e \in Pointers : e.id \in activePointers /\ HandlePointerUp(e, "pointerup")

\* onPointerLeave={handlePointerUp}: a pointer leaves pressed or hovering
PtrLeave == steps < MaxPointerSteps /\ \E e \in Pointers : HandlePointerUp(e, "pointerleave")

\* onPointerCancel={handlePointerUp}
PtrCancel ==
    /\ steps < MaxPointerSteps
    /\ \E e \in Pointers : /\ e.id \in activePointers
                            /\ e.pointerType = "touch"
                            /\ HandlePointerUp(e, "pointercancel")

NextPointer ==
    \/ PtrCreate
    \/ PtrCreateTimer
    \/ PtrSetTool
    \/ PtrDown
    \/ PtrMove
    \/ PtrFrame
    \/ PtrUp
    \/ PtrLeave
    \/ PtrCancel

SpecPointer == InitPointer /\ [][NextPointer]_vars

\* C10: pathRemainder is 0 when the first segment of a path stroke is drawn,
\* and it is 0 whenever no stroke is in progress, that is after every stroke
\* ended by pointer up, leave, cancel or a second pointer going down
C10_RemainderResets ==
    /\ (op.name = "drawPathSegment" /\ strokeSegments = 1) => op.remainder = 0
    /\ ~isDrawing => pathRemainder = 0

----------------------------------------------------------------------------
(* Specification SpecFrame: every paint, draw, render, capture and export   *)
(* operation on an initialised engine                                       *)

MaxFrameSteps == 4

\* the dabs: sculpt, river, texture brush and eraser with a pattern chosen, and
\* the texture brush with none (flat colour)
FrameStates ==
    { PaintState("terrain", 1, 100, 50, 0, FALSE, FALSE, FALSE),
      PaintState("river", 1, 100, 50, 0, FALSE, FALSE, FALSE),
      PaintState("texture", 1, 100, 100, 0, FALSE, TRUE, FALSE),
      PaintState("texture", 1, 50, 50, 0, FALSE, TRUE, TRUE),
      PaintState("texture", 1, 100, 50, 0, FALSE, FALSE, FALSE) }

InitFrame ==
    /\ StochasticStamp = InitStamp
    /\ genCount = 0
    /\ steps = 0
    /\ op = [name |-> "new"]
    /\ InitEngine
    /\ InitApp

FrmInit ==
    /\ steps = 0
    /\ EngineInit
    /\ UNCHANGED appVars

FrmDab ==
    /\ 0 < steps /\ steps < MaxFrameSteps
    /\ \E x \in {SubPx, 3 * SubPx}, state \in FrameStates : ApplyPaint(x, state)
    /\ UNCHANGED appVars

FrmPathSegment ==
    /\ 0 < steps /\ steps < MaxFrameSteps
    /\ DrawPathSegment(0, 2 * SubPx, PathState(1, 10, "dots", 100))
    /\ UNCHANGED appVars

FrmRender ==
    /\ 0 < steps /\ steps < MaxFrameSteps
    /\ \E d \in {NoDirty, Dirty(2, FactorDen)} : RenderTextureLayer(d)
    /\ UNCHANGED appVars

FrmShallowWater ==
    /\ 0 < steps /\ steps < MaxFrameSteps
    /\ \E isEnabled \in BOOLEAN : UpdateShallowWater(isEnabled)
    /\ UNCHANGED appVars

FrmDrawAssets ==
    /\ 0 < steps /\ steps < MaxFrameSteps
    /\ DrawAssets(<<Asset(1, "grass", 2 * SubPx, 2)>>, Null, "asset")
    /\ UNCHANGED appVars

FrmAssetLoaded ==
    /\ \E p \in pendingImages : AssetImageLoaded(p)
    /\ UNCHANGED appVars

FrmDrawLabels ==
    /\ 0 < steps /\ steps < MaxFrameSteps
    /\ DrawLabels(<<Label(1, 2 * SubPx, 1, 2, TRUE)>>, Null, "text")
    /\ UNCHANGED appVars

FrmGetSnapshot ==
    /\ 0 < steps /\ steps < MaxFrameSteps
    /\ GetSnapshot
    /\ UNCHANGED appVars

FrmExport ==
    /\ 0 < steps /\ steps < MaxFrameSteps
    /\ \E src \in {"null", "dots"} : ExportImage(src)
    /\ UNCHANGED appVars

FrmExportLoaded ==
    /\ \E p \in pendingImages : ExportImageLoaded(p)
    /\ UNCHANGED appVars

NextFrame ==
    \/ FrmInit
    \/ FrmDab
    \/ FrmPathSegment
    \/ FrmRender
    \/ FrmShallowWater
    \/ FrmDrawAssets
    \/ FrmAssetLoaded
    \/ FrmDrawLabels
    \/ FrmGetSnapshot
    \/ FrmExport
    \/ FrmExportLoaded

SpecFrame == InitFrame /\ [][NextFrame]_vars

----------------------------------------------------------------------------
(* C11 *)

\* the step is a dab of applyPaint in one of the given paint modes
DabIn(modes) == op'.name = "applyPaint" /\ op'.state.paintMode \in modes

\* C11: among the paint, draw, render, capture and export operations, LandMask
\* changes only in terrain and river dabs and TextureMask only in texture dabs
\* made with a pattern active; a texture dab with a pattern leaves LandMask and
\* the visible terrain layer unchanged, one without a pattern leaves both
\* masks unchanged; terrain and river dabs leave TextureMask unchanged;
\* drawPathSegment, renderTextureLayer, updateShallowWater, drawAssets,
\* drawLabels, getSnapshot and exportImage leave both masks unchanged.
C11_MaskFrame ==
    [][ /\ maskCanvas' # maskCanvas => DabIn({"terrain", "river"})
        /\ textureMaskCanvas' # textureMaskCanvas
              => (DabIn({"texture"}) /\ op'.state.activeTexture)
        /\ (DabIn({"texture"}) /\ op'.state.activeTexture)
              => UNCHANGED <<maskCanvas, mapCanvas>>
        /\ (DabIn({"texture"}) /\ ~op'.state.activeTexture)
              => UNCHANGED <<maskCanvas, textureMaskCanvas>>
        /\ DabIn({"terrain", "river"}) => UNCHANGED textureMaskCanvas
        /\ op'.name \in {"drawPathSegment", "renderTextureLayer", "updateShallowWater",
                         "drawAssets", "drawLabels", "getSnapshot", "exportImage",
                         "imageLoaded"}
              => UNCHANGED <<maskCanvas, textureMaskCanvas>> ]_vars

\* a texture dab with a pattern has written TextureMask over existing land, on
\* a map whose terrain layer is painted
C11_Witness ==
    /\ op.name = "applyPaint"
    /\ op.state.paintMode = "texture"
    /\ op.state.activeTexture
    /\ \E i \in Pixels : textureMaskCanvas[i] > 0 /\ maskCanvas[i] > 0 /\ mapCanvas[i] > 0

----------------------------------------------------------------------------
(* C12 *)

\* TextureMask after the stamp of a texture dab at x with the given state, had
\* the brush opacity been b and the falloff width w
MaskStamped(x, state, rot, b, w) ==
    drawStamp(textureMaskCanvas,
              IF state.isTextureEraser THEN "destination-out" ELSE "source-over",
              StochasticStamp, x, state.brushSize * FactorDen, b, state.roughness, w, 0, w,
              rot, 0, 0).pixels

\* C12: in texture mode with a pattern active, what a dab writes into
\* TextureMask is the same whatever the brush opacity (brushBlur) and the
\* falloff width (blurWidth) are: the stamp is a full-opacity stamp.
C12_FullOpacityStamp ==
    [][ (DabIn({"texture"}) /\ op'.state.activeTexture)
          => \A b \in {50, 100}, w \in {50, 100} :
               textureMaskCanvas' = MaskStamped(op'.x, op'.state, op'.rot, b, w) ]_vars

----------------------------------------------------------------------------
(* Specification SpecResize: sequences of init and resize *)

MaxResizeSteps == 6

\* the widths passed to init and resize, in pixels
ResizeWidths == 1 .. CanvasW

InitResize ==
    /\ StochasticStamp = InitStamp
    /\ genCount = 0
    /\ steps = 0
    /\ op = [name |-> "new"]
    /\ InitEngine
    /\ InitApp

RszInit ==
    /\ steps < MaxResizeSteps
    /\ \E w \in ResizeWidths : EngineInitTo(w)
    /\ UNCHANGED appVars

RszResize ==
    /\ steps < MaxResizeSteps
    /\ \E w \in ResizeWidths : Resize(w)
    /\ UNCHANGED appVars

NextResize ==
    \/ RszInit
    \/ RszResize

SpecResize == InitResize /\ [][NextResize]_vars

\* C13: after any sequence of init and resize calls, once init has handed the
\* engine its six visible canvases, all eight layers have the same width, the
\* one last passed to init or resize
C13_SameDimensions ==
    (ctxBound /\ op.name \in {"init", "resize"})
        => \A l \in Layers : layerWidth[l] = op.w

----------------------------------------------------------------------------
(* Specification SpecRestore: loadSnapshot on a map with a pattern and content *)

MaxRestoreSteps == 5

InitRestore ==
    /\ StochasticStamp = InitStamp
    /\ genCount = 0
    /\ steps = 0
    /\ op = [name |-> "new"]
    /\ InitEngine
    /\ InitApp

RstInit ==
    /\ steps = 0
    /\ EngineInit
    /\ UNCHANGED appVars

\* the pattern is chosen once in a behaviour, before anything is painted
RstSetTexture ==
    /\ steps = 1
    /\ \E src \in Sources : SetGlobalTexture(src)
    /\ UNCHANGED appVars

RstImageLoaded ==
    /\ \E p \in pendingImages : ImageLoaded(p)
    /\ UNCHANGED appVars

RstTerrainDab ==
    /\ 0 < steps /\ steps < MaxRestoreSteps - 1
    /\ pendingLoads = {}
    /\ ApplyPaint(3 * SubPx, PaintState("terrain", 2, 100, 100, 0, FALSE, FALSE, FALSE))
    /\ UNCHANGED appVars

RstTextureDab ==
    /\ 0 < steps /\ steps < MaxRestoreSteps - 1
    /\ pendingLoads = {}
    /\ ApplyPaint(3 * SubPx, PaintState("texture", 1, 100, 100, 0, FALSE, TRUE, FALSE))
    /\ UNCHANGED appVars

\* one loadSnapshot at a time, with the canvas dimensions
RstRestore ==
    /\ 0 < steps /\ steps < MaxRestoreSteps
    /\ pendingLoads = {}
    /\ \E s \in FileSnapshots : LoadSnapshot(s, CanvasW)
    /\ UNCHANGED appVars

RstDecode ==
    /\ \E p \in pendingLoads : DecodeComplete(p)
    /\ UNCHANGED appVars

NextRestore ==
    \/ RstInit
    \/ RstSetTexture
    \/ RstImageLoaded
    \/ RstTerrainDab
    \/ RstTextureDab
    \/ RstRestore
    \/ RstDecode

SpecRestore == InitRestore /\ [][NextRestore]_vars

\* the last steps were a loadSnapshot and decodes of it, and both its mask
\* decodes have completed
MasksRestored ==
    /\ op.name = "decode"
    /\ op.snapshot.taken
    /\ \A p \in pendingLoads : p.layer \notin {"mask", "textureMask"}

\* the pixels of a decoded image
Decode(url) == [i \in Pixels |-> ImagePixel(url, i)]

\* C14: once both mask decodes of a loadSnapshot have completed, in either
\* order (or the LandMask decode alone when the snapshot has no textureMask,
\* and then TextureMask is empty), the masks are the snapshot's and the visible
\* texture layer is pattern AND TextureMask AND LandMask over the whole
\* canvas (empty where there is no pattern)
C14_TextureAfterRestore ==
    MasksRestored
        => /\ maskCanvas = Decode(op.snapshot.mask)
           /\ textureMaskCanvas = IF op.snapshot.hasTextureMask
                                  THEN Decode(op.snapshot.textureMask) ELSE Blank
           /\ \A i \in Pixels :
                textureCanvas[i] =
                   IF currentTextureImg.set
                   THEN Round(Round(PatternAt(currentTextureImg, i) * textureMaskCanvas[i], 100)
                                * maskCanvas[i], 100)
                   ELSE 0

\* the LandMask decode completed after the TextureMask decode, with a pattern,
\* and the texture layer shows through the restored masks
C14_Witness ==
    /\ MasksRestored
    /\ op.layer = "mask"
    /\ op.snapshot.hasTextureMask
    /\ currentTextureImg.set
    /\ \E i \in Pixels : textureCanvas[i] > 0
    /\ \E i \in Pixels : textureCanvas[i] = 0 /\ maskCanvas[i] > 0

----------------------------------------------------------------------------
(* Context state across drawStamp and applyPaint *)

\* two context states agree on compositing mode, globalAlpha, transform and
\* on what save() has pushed
SameCtx(c, d) ==
    c.gco = d.gco /\ c.alpha = d.alpha /\ c.origin = d.origin /\ c.saved = d.saved

\* the compositing modes the engine sets
Modes == {"source-over", "destination-out", "source-atop"}

\* C18: a dab leaves the compositing mode of mapCtx, maskCtx and
\* textureMaskCtx as it found it, in every paint mode; and drawStamp, called
\* on any of these contexts in any mode, leaves its compositing mode, global
\* alpha and transform as they were before the call
C18_ContextRestored ==
    [][ op'.name = "applyPaint"
          => \A c \in {"map", "mask", "textureMask"} :
               /\ ctxState'[c].gco = ctxState[c].gco
               /\ \A gco \in Modes, o \in {50, 100} :
                    SameCtx(StampCtx([ctxState[c] EXCEPT !.gco = gco], op'.x, o),
                            [ctxState[c] EXCEPT !.gco = gco]) ]_vars

\* a river dab has erased part of the painted terrain, and the contexts are
\* in their initial state
C18_Witness ==
    /\ op.name = "applyPaint"
    /\ op.mode = "river"
    /\ \E i \in Pixels : mapCanvas[i] > 0
    /\ \E i \in Pixels : mapCanvas[i] = 0
    /\ \A c \in {"map", "mask", "textureMask"} : SameCtx(ctxState[c], DefaultCtx)

----------------------------------------------------------------------------
(* MapEngine.loadAssetImage called by the App  (MapEngine.ts 91-96; App.tsx 318, 409) *)

\* a mutant of LoadAssetImage: the cache is not consulted
LoadAssetImage_AlwaysFetch(src) ==
    /\ op' = [name |-> "loadAssetImage", src |-> src, fetch |-> TRUE, img |-> NoImage]
    /\ steps' = steps + 1
    /\ pendingImages' = pendingImages \cup {[id |-> steps, src |-> src, for |-> "place"]}
    /\ UNCHANGED <<stampVars, ctxBound, layerWidth, lastAssets, ctxState, layerVars, pathAlpha,
                   currentTextureImg, riverState, pathRemainder, organicDabs, assetCache,
                   pendingLoads, snap, surfaceVars>>

\* loadAssetImage(src) for an asset being placed: a cached image is returned
\* at once, otherwise loadImage starts a fetch
LoadAssetImage(src) ==
    /\ op' = [name |-> "loadAssetImage", src |-> src, fetch |-> src \notin assetCache,
              img |-> IF src \in assetCache THEN Decoded(src) ELSE NoImage]
    /\ steps' = steps + 1
    /\ pendingImages' = IF src \in assetCache THEN pendingImages
                        ELSE pendingImages \cup {[id |-> steps, src |-> src, for |-> "place"]}
    /\ UNCHANGED <<stampVars, ctxBound, layerWidth, lastAssets, ctxState, layerVars, pathAlpha,
                   currentTextureImg, riverState, pathRemainder, organicDabs, assetCache,
                   pendingLoads, snap, surfaceVars>>

\* img.onload or img.onerror of that fetch: loadImage resolves with the element
\* either way, loadAssetImage caches it and resolves with it
PlacedImageLoaded(p) ==
    /\ p \in pendingImages
    /\ p.for = "place"
    /\ pendingImages' = pendingImages \ {p}
    /\ assetCache' = assetCache \cup {p.src}
    /\ op' = [name |-> "imageLoaded", src |-> p.src, for |-> p.for, id |-> p.id,
              img |-> Decoded(p.src)]
    /\ UNCHANGED <<stampVars, steps, ctxBound, layerWidth, lastAssets, ctxState, layerVars,
                   pathAlpha, currentTextureImg, riverState, pathRemainder, organicDabs,
                   pendingLoads, snap, surfaceVars>>

----------------------------------------------------------------------------
(* Specification SpecAssets: image loads and drawAssets calls that overlap *)

MaxAssetSteps == 4

\* the lists drawAssets is given: assets of the two sources that load and of
\* the one that fails (its image has width 0)
Grass1 == Asset(1, "grass", 1 * SubPx, 1)
Dots2 == Asset(2, "dots", 3 * SubPx, 1)
Missing3 == Asset(3, FailingSource, 2 * SubPx, 0)
AssetLists ==
    { <<>>, <<Grass1>>, <<Dots2>>, <<Grass1, Dots2>>, <<Missing3, Grass1>>, <<Dots2, Missing3>> }

InitAssets ==
    /\ StochasticStamp = InitStamp
    /\ genCount = 0
    /\ steps = 0
    /\ op = [name |-> "new"]
    /\ InitEngine
    /\ InitApp

AstInit ==
    /\ steps = 0
    /\ EngineInit
    /\ UNCHANGED appVars

AstSetTexture ==
    /\ 0 < steps /\ steps < MaxAssetSteps
    /\ \E src \in Sources : SetGlobalTexture(src)
    /\ UNCHANGED appVars

AstTextureLoaded ==
    /\ \E p \in pendingImages : ImageLoaded(p)
    /\ UNCHANGED appVars

AstLoadAssetImage ==
    /\ 0 < steps /\ steps < MaxAssetSteps
    /\ \E src \in Sources \cup {FailingSource} : LoadAssetImage(src)
    /\ UNCHANGED appVars

AstPlacedImageLoaded ==
    /\ \E p \in pendingImages : PlacedImageLoaded(p)
    /\ UNCHANGED appVars

AstDrawAssets ==
    /\ 0 < steps /\ steps < MaxAssetSteps
    /\ \E assets \in AssetLists : DrawAssets(assets, Null, "asset")
    /\ UNCHANGED appVars

AstAssetLoaded ==
    /\ \E p \in pendingImages : AssetImageLoaded(p)
    /\ UNCHANGED appVars

NextAssets ==
    \/ AstInit
    \/ AstSetTexture
    \/ AstTextureLoaded
    \/ AstLoadAssetImage
    \/ AstPlacedImageLoaded
    \/ AstDrawAssets
    \/ AstAssetLoaded

SpecAssets == InitAssets /\ [][NextAssets]_vars

\* C15: a fetch starts only for a source no load has completed for (so every
\* fetch of a source starts while its first load is pending), a completed load
\* leaves the source cached for good, a call for a cached source starts no
\* fetch and gets the image of that source, and every load that completes
\* hands its requester the image of its source
C15_CachedAfterFirstLoad ==
    [][ /\ \A p \in pendingImages' \ pendingImages : p.src \notin assetCache
        /\ \A p \in pendingImages \ pendingImages' : p.src \in assetCache'
        /\ assetCache \subseteq assetCache'
        /\ (op'.name = "loadAssetImage" /\ op'.src \in assetCache)
              => pendingImages' = pendingImages /\ op'.img = Decoded(op'.src)
        /\ (op'.name = "setGlobalTexture" /\ op'.src \in assetCache)
              => pendingImages' = pendingImages /\ currentTextureImg' = Decoded(op'.src)
        /\ (op'.name = "imageLoaded" /\ op'.for = "place") => op'.img = Decoded(op'.src)
        /\ (op'.name = "imageLoaded" /\ op'.for = "texture")
              => currentTextureImg' = Decoded(op'.src) ]_vars

\* a call is answered from the cache while a second fetch of the same source,
\* begun before the first load completed, is still pending
C15_Witness ==
    /\ op.name = "loadAssetImage"
    /\ ~op.fetch
    /\ op.img = Decoded(op.src)
    /\ \E p \in pendingImages : p.src = op.src

\* the assets of a list whose source loads
Loads(a) == a.src \in Sources

\* the asset layer with exactly the given assets on it, each drawn once
Drawn(assets) ==
    DrawAssetList(DefaultCtx, Blank, SelectSeq(assets, Loads), Sources, Null, "asset").pixels

\* C16: a load that fails resolves like one that succeeds, with the (blank)
\* image of its source, and a drawAssets call whose images are all in the
\* cache, one of them failed, has drawn every asset of the other sources when
\* it returns
C16_FailingSourceTolerated ==
    [][ /\ (op'.name = "imageLoaded" /\ op'.for = "place")
              => op'.img = Decoded(op'.src) /\ op'.src \in assetCache'
        /\ ( /\ op'.name = "drawAssets"
             /\ \A k \in 1 .. Len(op'.assets) : op'.assets[k].src \in assetCache )
              => assetCanvas' = Drawn(op'.assets) ]_vars

\* no drawAssets call is suspended on an image
NoDrawPending == \A p \in pendingImages : p.for # "drawAssets"

\* C19: once every drawAssets call has completed, overlapping ones included,
\* the asset layer shows exactly the assets of the list given to the most
\* recent call, each drawn once
C19_LatestAssetsShown ==
    (ctxBound /\ NoDrawPending) => assetCanvas = Drawn(lastAssets)

----------------------------------------------------------------------------
(* Specification SpecStroke: straight path strokes cut into segments *)

MaxStrokeSteps == 6
MaxStrokePx == 100        \* the longest stroke, in pixels

\* the longest stroke, in sub-pixel units
MaxStrokeLen == MaxStrokePx * SubPx

\* where every stroke starts, in sub-pixel units
StrokeStart == SubPx \div 2

\* segment lengths in sub-pixel units, from half a pixel on
StrokeLengths ==
    {CeilDiv(SubPx, 2), CeilDiv(3 * SubPx, 4), 10, 25 * SubPx, 35 * SubPx, 75 * SubPx, 100 * SubPx}

\* brushSize 10 with spacing factor 2.5, and two small brushes
StrokeStates == { PathState(10, 25, "dots", 100), PathState(1, 1, "dots", 100),
                  PathState(2, 13, "dashed", 100) }

InitStroke ==
    /\ StochasticStamp = InitStamp
    /\ genCount = 0
    /\ steps = 0
    /\ op = [name |-> "new"]
    /\ InitEngine
    /\ InitApp

StkInit ==
    /\ steps = 0
    /\ EngineInit
    /\ UNCHANGED appVars

\* a stroke starts: pathRemainder = 0
StkBegin ==
    /\ 0 < steps /\ steps < MaxStrokeSteps
    /\ op.name # "resetPathRemainder"
    /\ ResetPathRemainder
    /\ UNCHANGED appVars

\* the next segment of the stroke, from where the last one ended, with the
\* same brush
StkSegment ==
    /\ 0 < steps /\ steps < MaxStrokeSteps
    /\ op.name \in {"resetPathRemainder", "drawPathSegment"}
    /\ \E len \in StrokeLengths, state \in StrokeStates :
         LET x1 == IF op.name = "drawPathSegment" THEN op.x2 ELSE StrokeStart IN
         /\ op.name = "drawPathSegment" => state = op.state
         /\ x1 + len <= StrokeStart + MaxStrokeLen
         /\ DrawPathSegment(x1, x1 + len, state)
    /\ UNCHANGED appVars

NextStroke == StkInit \/ StkBegin \/ StkSegment

SpecStroke == InitStroke /\ [][NextStroke]_vars

\* the marks at distances 0, S, 2S, ... from the stroke start that fall on the
\* segment from x1 to x2 (scaled by PathDen); the start of the segment
\* belongs to the segment before it, unless it is the first
StrokeMarks(state, x1, x2, first) ==
    { m \in { StrokeStart * PathDen + n * Spacing(state) :
                n \in 0 .. ((MaxStrokeLen * PathDen) \div Spacing(state)) } :
        /\ IF first THEN m >= x1 * PathDen ELSE m > x1 * PathDen
        /\ m <= x2 * PathDen }

\* C17: in a stroke begun with PathRemainder 0, every segment of a straight
\* drag places exactly the marks at distances 0, S, 2S, ... from the stroke
\* start that fall on it, S = max(1, brushSize * pathSpacing), however the
\* drag is cut into segments of at least half a pixel; a mark at a segment's
\* end is placed by that segment and not again by the next
C17_EvenSpacing ==
    [][ (op'.name = "drawPathSegment" /\ op.name \in {"resetPathRemainder", "drawPathSegment"})
          => op'.marks = StrokeMarks(op'.state, op'.x1, op'.x2, op.name = "resetPathRemainder")
       ]_vars

\* brushSize 10, spacing factor 2.5: the first segment ended on the mark at
\* 25 px, and the second, up to 100 px, has placed the marks at 50, 75 and 100 px
C17_Witness ==
    /\ op.name = "drawPathSegment"
    /\ op.state = PathState(10, 25, "dots", 100)
    /\ op.x1 = StrokeStart + 25 * SubPx
    /\ op.x2 = StrokeStart + 100 * SubPx
    /\ op.remainder = Spacing(op.state)
    /\ op.marks = { (StrokeStart + d * SubPx) * PathDen : d \in {50, 75, 100} }

----------------------------------------------------------------------------
(* Throttling of pointer moves *)

\* the position the last engine call of a frame was made for
CallPoint(o) == IF o.name = "drawPathSegment" THEN o.x2 ELSE o.x

\* C20: at most one animation-frame callback is pending; a pointer move that
\* arrives while one is pending schedules nothing; processPointerMove runs
\* only as that callback, once, and its applyPaint or drawPathSegment is made
\* for the move that requested the frame, so calls follow the order in which
\* the moves were captured
C20_OneFramePending ==
    [][ /\ Len(rafPending') <= 1
        /\ (op'.name = "pointerMove" /\ rafPending # <<>>) => rafPending' = rafPending
        /\ (op'.name = "pointerMove" /\ rafPending = <<>>) => Len(rafPending') = 1
        /\ rafPending' # rafPending /\ rafPending' = <<>>
              => /\ Len(rafPending) = 1
                 /\ op'.name \in {"applyPaint", "drawPathSegment"}
                       => CallPoint(op') = getCanvasPoint(rafPending[1].x) ]_vars

\* in a stroke, a move has arrived while the frame requested by an earlier
\* move to another position is still pending
C20_Witness ==
    /\ op.name = "pointerMove"
    /\ isDrawing
    /\ Len(rafPending) = 1
    /\ rafPending[1].x # op.x

----------------------------------------------------------------------------
(* Specification SpecDabs: dabs of every mode on and off the canvas, with a
   pattern chosen beforehand or none *)

MaxDabSteps == 5

\* dab centres: beyond the left edge, inside, and on the right edge
EdgeDabXs == {-SubPx, 2 * SubPx, CanvasW * SubPx}

InitDabs ==
    /\ StochasticStamp = InitStamp
    /\ genCount = 0
    /\ steps = 0
    /\ op = [name |-> "new"]
    /\ InitEngine
    /\ InitApp

DabInit ==
    /\ steps = 0
    /\ EngineInit
    /\ UNCHANGED appVars

\* the pattern is chosen right after init, if at all, and stays
DabSetTexture ==
    /\ steps = 1
    /\ \E src \in Sources : SetGlobalTexture(src)
    /\ UNCHANGED appVars

DabImageLoaded ==
    /\ \E p \in pendingImages : ImageLoaded(p)
    /\ UNCHANGED appVars

DabTerrain ==
    /\ 0 < steps /\ steps < MaxDabSteps
    /\ pendingImages = {}
    /\ \E x \in EdgeDabXs, size \in BrushSizes :
         ApplyPaint(x, PaintState("terrain", size, 100, 100, 0, FALSE, FALSE, FALSE))
    /\ UNCHANGED appVars

DabRiver ==
    /\ 0 < steps /\ steps < MaxDabSteps
    /\ pendingImages = {}
    /\ \E x \in EdgeDabXs, size \in BrushSizes :
         ApplyPaint(x, PaintState("river", size, 100, 100, 0, FALSE, FALSE, FALSE))
    /\ UNCHANGED appVars

DabTexture ==
    /\ 0 < steps /\ steps < MaxDabSteps
    /\ pendingImages = {}
    /\ \E x \in EdgeDabXs, size \in BrushSizes, eraser \in BOOLEAN :
         ApplyPaint(x, PaintState("texture", size, 100, 100, 0, FALSE, TRUE, eraser))
    /\ UNCHANGED appVars

NextDabs ==
    \/ DabInit
    \/ DabSetTexture
    \/ DabImageLoaded
    \/ DabTerrain
    \/ DabRiver
    \/ DabTexture

SpecDabs == InitDabs /\ [][NextDabs]_vars

\* pattern AND TextureMask AND LandMask at pixel i; nothing without a pattern
Composed(img, texMask, mask, i) ==
    IF img.set THEN Round(Round(PatternAt(img, i) * texMask[i], 100) * mask[i], 100) ELSE 0

\* C21: after init and any sequence of terrain, river and texture dabs, on
\* and off the canvas, with the pattern image fixed, every pixel of the
\* visible texture layer equals pattern AND TextureMask AND LandMask (and is
\* empty when no pattern image is loaded)
C21_TextureComposed ==
    (ctxBound /\ pendingImages = {})
        => \A i \in Pixels :
             textureCanvas[i] = Composed(currentTextureImg, textureMaskCanvas, maskCanvas, i)
----------------------------------------------------------------------------
(* C22: the shallow water follows the land mask between strokes *)

\* the halo updateShallowWater derives from the current land mask
Halo(isEnabled) == updateShallowWater(waterCanvas, ctxBound, maskCanvas, isEnabled)

\* no pointer is down, no stroke is drawing and no frame is waiting
NoStroke == ~isDrawing /\ activePointers = {} /\ rafPending = <<>>

\* C22: whenever no stroke is in progress and no snapshot decode is pending,
\* the shallow-water layer is the halo of the current land mask when shallow
\* water is enabled and is empty when it is disabled
C22_WaterFollowsMask ==
    (ctxBound /\ NoStroke /\ pendingLoads = {})
        => waterCanvas = Halo(appState.isShallowWaterEnabled)
----------------------------------------------------------------------------
(* C23: the river width factors stay within 0.6 and 1.1 *)

\* 0.6 <= f / FactorDen <= 1.1
InFactorRange(f) == 6 * FactorDen <= 10 * f /\ 10 * f <= 11 * FactorDen

\* the dab just applied was a river dab with organic river enabled
OrganicDab(o) == o.name = "applyPaint" /\ o.mode = "river" /\ o.state.isOrganicRiver

\* the distance traveled up to a dab at x has reached the current threshold
ThresholdReached(rs, x) ==
    (rs.traveledSinceChange + Abs(x - rs.lastX)) * RandSteps >= rs.distToNextChange

\* C23: both width factors lie in [0.6, 1.1] in every state and the radius of a
\* river dab is between 0.6 and 1.1 times the brush size; the target changes
\* only on an organic river dab on which the traveled distance has reached the
\* threshold, such a dab sets the next threshold within 20 and 60 pixels and
\* the traveled distance to 0, and a dab without organic river leaves both
\* factors unchanged
C23_WidthFactorRange ==
    /\ [](InFactorRange(riverState.targetWidthFactor)
            /\ InFactorRange(riverState.currentWidthFactor))
    /\ [][ (op'.name = "applyPaint" /\ steps' = steps + 1)
           => /\ op'.mode = "river"
                   => /\ 6 * op'.state.brushSize * FactorDen <= 10 * op'.radius
                      /\ 10 * op'.radius <= 11 * op'.state.brushSize * FactorDen
              /\ riverState'.targetWidthFactor # riverState.targetWidthFactor
                   => OrganicDab(op') /\ ThresholdReached(riverState, op'.x)
              /\ (OrganicDab(op') /\ ThresholdReached(riverState, op'.x))
                   => /\ riverState'.distToNextChange >= 20 * SubPx * RandSteps
                      /\ riverState'.distToNextChange <= 60 * SubPx * RandSteps
                      /\ riverState'.traveledSinceChange = 0
              /\ (OrganicDab(op') /\ ~ThresholdReached(riverState, op'.x))
                   => riverState'.distToNextChange = riverState.distToNextChange
              /\ ~OrganicDab(op')
                   => /\ riverState'.targetWidthFactor = riverState.targetWidthFactor
                      /\ riverState'.currentWidthFactor = riverState.currentWidthFactor ]_vars

\* a second organic dab has picked the lowest target, 0.6, after the traveled
\* distance reached a threshold of at least 20 pixels, and the factor is
\* moving down toward it
C23_Witness ==
    /\ OrganicDab(op)
    /\ organicDabs >= 2
    /\ op.x - SubPx * 20 >= 0
    /\ riverState.traveledSinceChange = 0
    /\ riverState.targetWidthFactor = NewTarget(0)
    /\ riverState.currentWidthFactor > riverState.targetWidthFactor
    /\ 10 * op.radius < 10 * op.state.brushSize * FactorDen
----------------------------------------------------------------------------
(* Specification SpecTools: tool switches, drawer updates and project loads *)

MaxToolSteps == 3

\* ToolType
Tools == {"sculpt", "river", "sea", "paint", "path", "asset", "text", "move"}

\* the partial states the drawer's toggles and buttons pass to updateState
DrawerUpdates ==
    { [isOrganicRiver |-> TRUE], [isTextureEraser |-> TRUE] }

\* the AppState handleSaveFile writes as data.state, the whole state, in a
\* session that created a map and picked the tool
SavedWith(tool) ==
    [INITIAL_STATE EXCEPT !.activeTool = tool, !.paintMode = getPaintMode(tool),
                          !.canvasWidth = CanvasW]

\* the project files saved with each tool active
ToolFiles ==
    { [ProjectFile(TRUE, TRUE, TRUE, TRUE, "null", SavedLayers) EXCEPT !.state = SavedWith(t)] :
        t \in Tools }

InitTools ==
    /\ StochasticStamp = InitStamp
    /\ genCount = 0
    /\ steps = 0
    /\ op = [name |-> "new"]
    /\ InitEngine
    /\ InitApp

TlCreate == HandleCreate("New Map", CanvasW)

TlCreateTimer == \E t \in timers : CreateTimerFires(t)

TlLoad == \E file \in ToolFiles : HandleLoad(file)

TlLoadTimer == \E t \in timers : LoadTimerFires(t)

TlDecode == \E p \in pendingLoads : DecodeComplete(p) /\ UNCHANGED appVars

TlSetTool == steps < MaxToolSteps /\ \E t \in Tools : SetTool(t)

TlUpdate == steps < MaxToolSteps /\ \E partial \in DrawerUpdates : UpdateState(partial)

TlDown ==
    /\ steps < MaxToolSteps
    /\ activePointers = {}
    /\ \E e \in Pointers : e.pointerType = "mouse" /\ HandlePointerDown(e, SubPx)

TlUp ==
    /\ steps < MaxToolSteps
    /\ \E e \in Pointers : e.id \in activePointers /\ HandlePointerUp(e, "pointerup")

NextTools ==
    \/ TlCreate
    \/ TlCreateTimer
    \/ TlLoad
    \/ TlLoadTimer
    \/ TlDecode
    \/ TlSetTool
    \/ TlUpdate
    \/ TlDown
    \/ TlUp

SpecTools == InitTools /\ [][NextTools]_vars

\* C24: in every reachable state paintMode is getPaintMode(activeTool), so
\* the mode applyPaint acts on is the one that belongs to the active tool
C24_ModeFollowsTool ==
    /\ appState.paintMode = getPaintMode(appState.activeTool)
    /\ op.name = "applyPaint" => op.state.paintMode = getPaintMode(appState.activeTool)
----------------------------------------------------------------------------
(* Specification SpecGlobalTexture: the drawer picks textures while earlier  *)
(* picks are still loading                                                   *)

MaxPickSteps == 5

\* the drawer's "no texture" button and its texture swatches
TexturePicks ==
    {[activeTexture |-> "null"]}
        \cup { [activeTexture |-> src, isTextureEraser |-> FALSE] : src \in Sources }

InitGlobalTexture ==
    /\ StochasticStamp = InitStamp
    /\ genCount = 0
    /\ steps = 0
    /\ op = [name |-> "new"]
    /\ InitEngine
    /\ InitApp

GtxCreate == HandleCreate("New Map", CanvasW)

GtxCreateTimer == \E t \in timers : CreateTimerFires(t)

GtxSetTool == steps < MaxPickSteps /\ \E t \in {"sculpt", "paint"} : SetTool(t)

\* a pick sets activeTexture; the effect calls setGlobalTexture(activeTexture)
GtxPick == steps < MaxPickSteps /\ \E partial \in TexturePicks : UpdateState(partial)

GtxImageLoaded == \E p \in pendingImages : ImageLoaded(p) /\ UNCHANGED appVars

GtxDown ==
    /\ steps < MaxPickSteps
    /\ activePointers = {}
    /\ \E e \in Pointers : e.pointerType = "mouse" /\ HandlePointerDown(e, SubPx)

GtxUp == \E e \in Pointers : e.id \in activePointers /\ HandlePointerUp(e, "pointerup")

NextGlobalTexture ==
    \/ GtxCreate
    \/ GtxCreateTimer
    \/ GtxSetTool
    \/ GtxPick
    \/ GtxImageLoaded
    \/ GtxDown
    \/ GtxUp

SpecGlobalTexture == InitGlobalTexture /\ [][NextGlobalTexture]_vars

\* the image of the source most recently given to setGlobalTexture, which the
\* effect calls with activeTexture on every change
RequestedImage ==
    IF appState.activeTexture = "null" THEN NoImage ELSE Decoded(appState.activeTexture)

\* C25: once every image load has completed, currentTextureImg is the image of
\* the most recently requested source, null when that request was null, and
\* the texture layer was last rendered with it, in whatever order the loads
\* completed
C25_LatestTextureWins ==
    pendingImages = {}
        => /\ currentTextureImg = RequestedImage
           /\ op.name \in {"imageLoaded", "updateState"}
                => textureCanvas = FullRender(RequestedImage, textureMaskCanvas, maskCanvas)
----------------------------------------------------------------------------
(* Specification SpecHistory: strokes, labels, undo and redo on a new map *)

MaxHistorySteps == 7

\* the sculpt and river tools: strokes that raise and carve land
HistoryTools == {"sculpt", "river"}

InitHistory ==
    /\ StochasticStamp = InitStamp
    /\ genCount = 0
    /\ steps = 0
    /\ op = [name |-> "new"]
    /\ InitEngine
    /\ InitApp

HisCreate == HandleCreate("New Map", CanvasW)

HisCreateTimer == \E t \in timers : CreateTimerFires(t)

\* nothing of an earlier undo or redo is still to run
HistorySettled == pendingLoads = {} /\ \A t \in timers : t.kind # "history"

HisSetTool ==
    /\ steps < MaxHistorySteps
    /\ HistorySettled
    /\ activePointers = {}
    /\ \E t \in HistoryTools : SetTool(t)

\* a stroke of one dab
HisDown ==
    /\ steps < MaxHistorySteps
    /\ HistorySettled
    /\ activePointers = {}
    /\ \E e \in Pointers : e.pointerType = "mouse" /\ HandlePointerDown(e, SubPx)

HisUp == \E e \in Pointers : e.id \in activePointers /\ HandlePointerUp(e, "pointerup")

HisAddText ==
    /\ steps < MaxHistorySteps
    /\ HistorySettled
    /\ appState.labels = <<>>
    /\ HandleAddText(1)

\* undo and redo are clicked while at most one earlier loadSnapshot is decoding
OneCallPending == \A p, q \in pendingLoads : p.id = q.id

HisUndo == steps < MaxHistorySteps /\ activePointers = {} /\ OneCallPending /\ HandleUndo

HisRedo == steps < MaxHistorySteps /\ activePointers = {} /\ OneCallPending /\ HandleRedo

HisDecode == \E p \in pendingLoads : DecodeComplete(p) /\ UNCHANGED appVars

\* timers of equal delay run in the order they were set; the 50 ms of the
\* history timer outlast the decoding of the layers
HisTimer ==
    /\ pendingLoads = {}
    /\ \E t \in timers : (\A u \in timers : t.id <= u.id) /\ HistoryTimerFires(t)

NextHistory ==
    \/ HisCreate
    \/ HisCreateTimer
    \/ HisSetTool
    \/ HisDown
    \/ HisUp
    \/ HisAddText
    \/ HisUndo
    \/ HisRedo
    \/ HisDecode
    \/ HisTimer

SpecHistory == InitHistory /\ [][NextHistory]_vars

----------------------------------------------------------------------------
(* C26 *)

\* the last loadSnapshot was made by undo or redo and every decode of it and
\* of the calls before it has completed
AllDecoded == op.name = "decode" /\ op.snapshot.taken /\ pendingLoads = {}

\* C26: when loadSnapshot is called again while the decodes of the call before
\* are pending (two quick undos), then after all decodes of both calls have
\* completed, in any order, LandMask, TextureMask, the visible terrain layer
\* and the path layer hold the content of the later snapshot
C26_LaterSnapshotWins ==
    AllDecoded
        => /\ maskCanvas = Decode(op.snapshot.mask)
           /\ textureMaskCanvas = Decode(op.snapshot.textureMask)
           /\ mapCanvas = Decode(op.snapshot.map)
           /\ pathCanvas = Decode(op.snapshot.path)

----------------------------------------------------------------------------
(* C29 *)

\* a redo followed an undo (with none, some or all of the undo's decodes
\* completed in between) and every decode of both has completed
RedoDecoded ==
    /\ op.name = "decode" /\ pendingLoads = {}
    /\ "by" \in DOMAIN op /\ op.by = "redo" /\ op.paired

\* C29: undo followed by redo restores LandMask, TextureMask, the visible
\* terrain layer, the path layer and the assets and labels lists to what they
\* were just before the undo, for every timing of the redo relative to the
\* completion of the undo's decodes
C29_UndoRedoRestores ==
    /\ (op.name = "redo" /\ op.applied /\ op.paired)
          => <<appState.assets, appState.labels>> = op.lists
    /\ RedoDecoded
          => /\ <<maskCanvas, textureMaskCanvas, mapCanvas, pathCanvas>> = op.layers
             /\ <<appState.assets, appState.labels>> = op.lists

----------------------------------------------------------------------------
(* C27 *)

\* C27: between engine calls every layer context has global alpha 1 and
\* source-over compositing, so the drawImage of loadSnapshot writes each
\* restored layer as the snapshot holds it, at full opacity
C27_ContextsAtRest ==
    /\ pathAlpha = 100
    /\ \A c \in Contexts : ctxState[c].alpha = 100 /\ ctxState[c].gco = "source-over"
    /\ (op.name = "decode" /\ op.snapshot.taken)
          => /\ op.layer = "path" => pathCanvas = Decode(op.snapshot.path)
             /\ op.layer = "map" => mapCanvas = Decode(op.snapshot.map)
             /\ op.layer = "mask" => maskCanvas = Decode(op.snapshot.mask)
             /\ op.layer = "textureMask"
                   => textureMaskCanvas = Decode(op.snapshot.textureMask)

----------------------------------------------------------------------------
(* Specification SpecUndoStack: long runs of strokes, undo and redo *)

MaxUndoSteps == 45

InitUndoStack ==
    /\ StochasticStamp = InitStamp
    /\ genCount = 0
    /\ steps = 0
    /\ op = [name |-> "new"]
    /\ InitEngine
    /\ InitApp

UsCreate == HandleCreate("New Map", CanvasW)

UsCreateTimer == \E t \in timers : CreateTimerFires(t)

\* a stroke starts: saveHistory, then the first dab
UsDown ==
    /\ steps < MaxUndoSteps
    /\ HistorySettled
    /\ activePointers = {}
    /\ \E e \in Pointers : e.pointerType = "mouse" /\ HandlePointerDown(e, SubPx)

UsUp == \E e \in Pointers : e.id \in activePointers /\ HandlePointerUp(e, "pointerup")

UsUndo == steps < MaxUndoSteps /\ HistorySettled /\ activePointers = {} /\ HandleUndo

UsRedo == steps < MaxUndoSteps /\ HistorySettled /\ activePointers = {} /\ HandleRedo

\* the position of a layer among the loadLayer calls of loadSnapshot
LoadRank(layer) ==
    CASE layer = "map" -> 1 [] layer = "path" -> 2 [] layer = "mask" -> 3 [] OTHER -> 4

\* the images of a call decode in the order they were requested
UsDecode ==
    \E p \in pendingLoads :
       /\ \A q \in pendingLoads : LoadRank(p.layer) <= LoadRank(q.layer)
       /\ DecodeComplete(p)
       /\ UNCHANGED appVars

UsTimer == pendingLoads = {} /\ \E t \in timers : HistoryTimerFires(t)

NextUndoStack ==
    \/ UsCreate
    \/ UsCreateTimer
    \/ UsDown
    \/ UsUp
    \/ UsUndo
    \/ UsRedo
    \/ UsDecode
    \/ UsTimer

SpecUndoStack == InitUndoStack /\ [][NextUndoStack]_vars

\* C28: the undo stack holds at most 20 entries and both stacks together hold
\* at most 20; an undo or redo that finds an entry takes one entry off its
\* stack and puts one on the other, and undo on an empty undo stack or redo on
\* an empty redo stack changes neither stack, the lists nor the layers
C28_StacksBounded ==
    /\ [](Len(undoStack) <= HistoryLimit
            /\ Len(undoStack) + Len(redoStack) <= HistoryLimit)
    /\ [][ /\ (op'.name = "undo" /\ steps' = steps + 1)
              => IF undoStack = <<>>
                 THEN UNCHANGED <<undoStack, redoStack, appState, timers, layerVars,
                                  pendingLoads>>
                 ELSE /\ Len(undoStack') = Len(undoStack) - 1
                      /\ Len(redoStack') = Len(redoStack) + 1
           /\ (op'.name = "redo" /\ steps' = steps + 1)
              => IF redoStack = <<>>
                 THEN UNCHANGED <<undoStack, redoStack, appState, timers, layerVars,
                                  pendingLoads>>
                 ELSE /\ Len(redoStack') = Len(redoStack) - 1
                      /\ Len(undoStack') = Len(undoStack) + 1 ]_vars

\* a redo on a full history: the undo stack is back at its limit of 20 after
\* 21 strokes, the first of whose entries was dropped, and an undo
C28_Witness ==
    /\ op.name = "redo" /\ op.applied
    /\ Len(undoStack) = HistoryLimit
    /\ redoStack = <<>>
    /\ steps >= 2 * HistoryLimit + 5

----------------------------------------------------------------------------
(* C30 *)

\* C30: no dab and no path segment is applied while two or more pointers are
\* down: a pointer going down beside another leaves isDrawing false, and
\* isDrawing becomes true only when a single pointer starts a stroke
C30_NoDrawingWithTwoPointers ==
    [][ /\ (steps' = steps + 1 /\ op'.name \in {"applyPaint", "drawPathSegment"})
             => Cardinality(activePointers') < 2
        /\ (activePointers' # activePointers /\ Cardinality(activePointers') >= 2)
             => ~isDrawing'
        /\ (isDrawing' /\ ~isDrawing) => Cardinality(activePointers') = 1 ]_vars

====
